---- MODULE Spec2Model ----
(***************************************************************************)
(* Model of src/queries/chunker.py (class SmartChunker): the token         *)
(* estimator, the greedy partitioner, the renderer and the combined entry  *)
(* point; and, further down, of the importer and the exporter of           *)
(* src/collectors and of the Ollama client and the template filling of     *)
(* src/analysis/processor.py, each with its own specification.             *)
(*                                                                         *)
(* Python values are represented as follows.                               *)
(*   - a str is a sequence of one-character strings;                       *)
(*   - a dict value is a record [kind, s]: kind "none" is None, kind "str" *)
(*     is a str with characters s, kind "datetime" is a datetime whose     *)
(*     digits YYYYMMDDHHMMSS are s;                                        *)
(*   - a message dict is a function from the keys it has to such values.   *)
(***************************************************************************)
EXTENDS Integers, Sequences, FiniteSets, TLC

VARIABLES messages, op, max_tokens, include_timestamps, text, result, lines, exc,
          tokens_per_word

\* A caller that repeats a call: the record of its first call and the
\* number of calls made.
VARIABLES earlier, calls

callVars == <<messages, op, max_tokens, include_timestamps, text, result, lines,
              exc, tokens_per_word>>

repeatVars == <<earlier, calls>>

\* Concurrent calls of chunk_messages: for each call its arguments, its
\* locals, its position and its return value.
VARIABLES threads

\* The importer (src/collectors/importer.py): the tables of the database
\* with the number of Database method calls made, and the export file with
\* the calls of import_file made on it.
VARIABLES db, imp

importVars == <<db, imp>>

\* A call of _fill_template (src/analysis/processor.py): its arguments and
\* its return value.
VARIABLES fill

\* The exporter (src/collectors/exporter.py): the files of output_dir and
\* the calls of export_guild made on it.
VARIABLES export

\* A call of OllamaClient.generate (src/analysis/processor.py): its
\* arguments, what the request met, and how the call ended.
VARIABLES ollama

\* The variables that the single calls of SmartChunker leave alone.
otherVars == <<repeatVars, threads, importVars, fill, export, ollama>>

vars == <<callVars, otherVars>>

(***************************************************************************)
(* Bounds of the model.                                                    *)
(***************************************************************************)
MaxMsgs == 3

MaxStatsMsgs == 4

MaxRepeatMsgs == 2

MaxThreadMsgs == 2

MaxBudget == 3

(***************************************************************************)
(* Python values.                                                          *)
(***************************************************************************)
None == [kind |-> "none", s |-> <<>>]

Str(chars) == [kind |-> "str", s |-> chars]

Datetime(digits) == [kind |-> "datetime", s |-> digits]

\* bool(v): None and "" are falsy, a non-empty str and a datetime are truthy.
Truthy(v) == \/ v.kind = "datetime"
             \/ v.kind = "str" /\ Len(v.s) > 0

\* a or b
Or(a, b) == IF Truthy(a) THEN a ELSE b

\* msg.get(key)
get(msg, key) == IF key \in DOMAIN msg THEN msg[key] ELSE None

\* str.isspace() of one character, over the characters of the model.
IsSpace(c) == c \in {" ", "\n", "\t"}

\* max(a, b)
max(a, b) == IF a >= b THEN a ELSE b

(***************************************************************************)
(* str.split() without arguments: the maximal runs of non-whitespace       *)
(* characters, in order; runs of whitespace separate them and leading and  *)
(* trailing whitespace yields no empty word.                               *)
(***************************************************************************)
RECURSIVE split_from(_, _, _, _)
split_from(chars, i, word, words) ==
    IF i > Len(chars)
    THEN IF Len(word) > 0 THEN Append(words, word) ELSE words
    ELSE IF IsSpace(chars[i])
         THEN split_from(chars, i + 1, <<>>,
                         IF Len(word) > 0 THEN Append(words, word) ELSE words)
         ELSE split_from(chars, i + 1, Append(word, chars[i]), words)

split(chars) == split_from(chars, 1, <<>>, <<>>)

(***************************************************************************)
(* str.strip() without arguments.                                          *)
(***************************************************************************)
RECURSIVE lstrip(_)
lstrip(chars) ==
    IF Len(chars) > 0 /\ IsSpace(Head(chars)) THEN lstrip(Tail(chars)) ELSE chars

RECURSIVE rstrip(_)
rstrip(chars) ==
    IF Len(chars) > 0 /\ IsSpace(chars[Len(chars)])
    THEN rstrip(SubSeq(chars, 1, Len(chars) - 1))
    ELSE chars

strip(chars) == rstrip(lstrip(chars))

(***************************************************************************)
(* SmartChunker class attributes.                                          *)
(***************************************************************************)
\* DEFAULT_MAX_TOKENS = 8_000
DEFAULT_MAX_TOKENS == 8000

\* TOKENS_PER_WORD = 1.3, in tenths.  The methods read the attribute through
\* cls, so a subclass with its own default changes it; the variable
\* tokens_per_word is the value of cls.TOKENS_PER_WORD, in tenths.
TOKENS_PER_WORD_TENTHS == 13

(***************************************************************************)
(* SmartChunker.estimate_tokens.  int() truncates; for the non-negative    *)
(* product len * 1.3 that is the floor of (13 * len) / 10.                 *)
(* cls.TOKENS_PER_WORD is read in tenths from tokens_per_word.             *)
(***************************************************************************)
\* Variant: the product is rounded to the nearest integer instead of truncated.
estimate_tokens_rounded(chars) ==
    IF Len(chars) = 0
    THEN 0
    ELSE max(1, (Len(split(chars)) * tokens_per_word + 5) \div 10)

estimate_tokens(chars) ==
    IF Len(chars) = 0
    THEN 0
    ELSE max(1, (Len(split(chars)) * tokens_per_word) \div 10)

(***************************************************************************)
(* SmartChunker.chunk_messages.  chunk_step is one iteration of the loop   *)
(* over messages, acting on the locals chunks, current_chunk and           *)
(* current_tokens.                                                         *)
(***************************************************************************)
\* Variant: the flush restarts the running total at 0 instead of msg_tokens.
chunk_step_reset_zero(acc, msg, budget) ==
    LET content    == Or(get(msg, "content"), Str(<<>>)).s
        msg_tokens == estimate_tokens(content)
    IN  IF acc.current_tokens + msg_tokens > budget /\ Len(acc.current_chunk) > 0
        THEN [chunks         |-> Append(acc.chunks, acc.current_chunk),
              current_chunk  |-> <<msg>>,
              current_tokens |-> 0]
        ELSE [chunks         |-> acc.chunks,
              current_chunk  |-> Append(acc.current_chunk, msg),
              current_tokens |-> acc.current_tokens + msg_tokens]

\* Variant: the flush is guarded by the running total instead of the chunk.
chunk_step_tokens_guard(acc, msg, budget) ==
    LET content    == Or(get(msg, "content"), Str(<<>>)).s
        msg_tokens == estimate_tokens(content)
    IN  IF acc.current_tokens + msg_tokens > budget /\ acc.current_tokens > 0
        THEN [chunks         |-> Append(acc.chunks, acc.current_chunk),
              current_chunk  |-> <<msg>>,
              current_tokens |-> msg_tokens]
        ELSE [chunks         |-> acc.chunks,
              current_chunk  |-> Append(acc.current_chunk, msg),
              current_tokens |-> acc.current_tokens + msg_tokens]

\* Variant: the flush is not guarded by 'and current_chunk'.
chunk_step_unguarded_flush(acc, msg, budget) ==
    LET content    == Or(get(msg, "content"), Str(<<>>)).s
        msg_tokens == estimate_tokens(content)
    IN  IF acc.current_tokens + msg_tokens > budget
        THEN [chunks         |-> Append(acc.chunks, acc.current_chunk),
              current_chunk  |-> <<msg>>,
              current_tokens |-> msg_tokens]
        ELSE [chunks         |-> acc.chunks,
              current_chunk  |-> Append(acc.current_chunk, msg),
              current_tokens |-> acc.current_tokens + msg_tokens]

\* Variant: the content is passed through str(), so None counts as "None".
chunk_step_none_as_text(acc, msg, budget) ==
    LET value      == get(msg, "content")
        content    == IF value.kind = "none" THEN <<"N", "o", "n", "e">>
                      ELSE value.s
        msg_tokens == estimate_tokens(content)
    IN  IF acc.current_tokens + msg_tokens > budget /\ Len(acc.current_chunk) > 0
        THEN [chunks         |-> Append(acc.chunks, acc.current_chunk),
              current_chunk  |-> <<msg>>,
              current_tokens |-> msg_tokens]
        ELSE [chunks         |-> acc.chunks,
              current_chunk  |-> Append(acc.current_chunk, msg),
              current_tokens |-> acc.current_tokens + msg_tokens]

\* Variant: a record that fills the budget exactly starts a new chunk.
chunk_step_flush_at_budget(acc, msg, budget) ==
    LET content    == Or(get(msg, "content"), Str(<<>>)).s
        msg_tokens == estimate_tokens(content)
    IN  IF acc.current_tokens + msg_tokens >= budget /\ Len(acc.current_chunk) > 0
        THEN [chunks         |-> Append(acc.chunks, acc.current_chunk),
              current_chunk  |-> <<msg>>,
              current_tokens |-> msg_tokens]
        ELSE [chunks         |-> acc.chunks,
              current_chunk  |-> Append(acc.current_chunk, msg),
              current_tokens |-> acc.current_tokens + msg_tokens]

\* Variant: every record starts a new chunk.
chunk_step_flush_every_record(acc, msg, budget) ==
    LET content    == Or(get(msg, "content"), Str(<<>>)).s
        msg_tokens == estimate_tokens(content)
    IN  IF Len(acc.current_chunk) > 0
        THEN [chunks         |-> Append(acc.chunks, acc.current_chunk),
              current_chunk  |-> <<msg>>,
              current_tokens |-> msg_tokens]
        ELSE [chunks         |-> acc.chunks,
              current_chunk  |-> Append(acc.current_chunk, msg),
              current_tokens |-> acc.current_tokens + msg_tokens]

chunk_step(acc, msg, budget) ==
    LET content    == Or(get(msg, "content"), Str(<<>>)).s
        msg_tokens == estimate_tokens(content)
    IN  IF acc.current_tokens + msg_tokens > budget /\ Len(acc.current_chunk) > 0
        THEN [chunks         |-> Append(acc.chunks, acc.current_chunk),
              current_chunk  |-> <<msg>>,
              current_tokens |-> msg_tokens]
        ELSE [chunks         |-> acc.chunks,
              current_chunk  |-> Append(acc.current_chunk, msg),
              current_tokens |-> acc.current_tokens + msg_tokens]

RECURSIVE chunk_loop(_, _, _, _)
chunk_loop(msgs, i, acc, budget) ==
    IF i > Len(msgs)
    THEN acc
    ELSE chunk_loop(msgs, i + 1, chunk_step(acc, msgs[i], budget), budget)

\* Variant: the running chunk is not flushed after the loop.
chunk_messages_no_final_flush(msgs, budget) ==
    IF Len(msgs) = 0
    THEN <<>>
    ELSE chunk_loop(msgs, 1,
                    [chunks |-> <<>>, current_chunk |-> <<>>,
                     current_tokens |-> 0],
                    budget).chunks

\* Variant: the early return yields what the docstring announces, [[]].
chunk_messages_as_documented(msgs, budget) ==
    IF Len(msgs) = 0
    THEN << <<>> >>
    ELSE LET acc == chunk_loop(msgs, 1,
                               [chunks |-> <<>>, current_chunk |-> <<>>,
                                current_tokens |-> 0],
                               budget)
         IN  IF Len(acc.current_chunk) > 0
             THEN Append(acc.chunks, acc.current_chunk)
             ELSE acc.chunks

\* Variant: the empty input yields one empty chunk.
chunk_messages_one_empty_chunk(msgs, budget) ==
    LET acc == chunk_loop(msgs, 1,
                          [chunks |-> <<>>, current_chunk |-> <<>>,
                           current_tokens |-> 0],
                          budget)
    IN  Append(acc.chunks, acc.current_chunk)

chunk_messages(msgs, budget) ==
    IF Len(msgs) = 0
    THEN <<>>
    ELSE LET acc == chunk_loop(msgs, 1,
                               [chunks |-> <<>>, current_chunk |-> <<>>,
                                current_tokens |-> 0],
                               budget)
         IN  IF Len(acc.current_chunk) > 0
             THEN Append(acc.chunks, acc.current_chunk)
             ELSE acc.chunks

(***************************************************************************)
(* SmartChunker.format_for_llm.                                            *)
(***************************************************************************)
\* Variant: 'current_username' is not consulted.
resolve_author_no_username(msg) ==
    Or(get(msg, "author"), Str(<<"u", "n", "k", "n", "o", "w", "n">>)).s

\* The author of a message: 'author', else 'current_username', else the
\* literal "unknown"; each 'or' falls through on None and on "".
resolve_author(msg) ==
    Or(Or(get(msg, "author"), get(msg, "current_username")),
       Str(<<"u", "n", "k", "n", "o", "w", "n">>)).s

\* datetime.strftime("%Y-%m-%d %H:%M") on the digits YYYYMMDDHHMMSS.
strftime(digits) ==
    SubSeq(digits, 1, 4) \o <<"-">> \o SubSeq(digits, 5, 6) \o <<"-">>
        \o SubSeq(digits, 7, 8) \o <<" ">> \o SubSeq(digits, 9, 10)
        \o <<":">> \o SubSeq(digits, 11, 12)

\* Variant of format_entry: the content is not stripped.
format_entry_no_strip(msg, timestamps) ==
    LET author  == Or(Or(get(msg, "author"), get(msg, "current_username")),
                      Str(<<"u", "n", "k", "n", "o", "w", "n">>)).s
        content == Or(get(msg, "content"), Str(<<>>)).s
    IN  IF Len(content) = 0
        THEN <<>>
        ELSE IF timestamps /\ Truthy(get(msg, "created_at"))
             THEN LET ts     == msg["created_at"]
                      ts_str == IF ts.kind = "datetime" THEN strftime(ts.s) ELSE ts.s
                  IN  << <<"[">> \o ts_str \o <<"]", " ">> \o author
                             \o <<":", " ">> \o content >>
             ELSE << author \o <<":", " ">> \o content >>

\* Variant of format_entry: include_timestamps is not consulted.
format_entry_always_stamp(msg, timestamps) ==
    LET author  == Or(Or(get(msg, "author"), get(msg, "current_username")),
                      Str(<<"u", "n", "k", "n", "o", "w", "n">>)).s
        content == strip(Or(get(msg, "content"), Str(<<>>)).s)
    IN  IF Len(content) = 0
        THEN <<>>
        ELSE IF Truthy(get(msg, "created_at"))
             THEN LET ts     == msg["created_at"]
                      ts_str == IF ts.kind = "datetime" THEN strftime(ts.s) ELSE ts.s
                  IN  << <<"[">> \o ts_str \o <<"]", " ">> \o author
                             \o <<":", " ">> \o content >>
             ELSE << author \o <<":", " ">> \o content >>

\* One iteration of the loop over messages: the lines it appends to 'lines'
\* (none when the message is skipped).
format_entry(msg, timestamps) ==
    LET author  == resolve_author(msg)
        content == strip(Or(get(msg, "content"), Str(<<>>)).s)
    IN  IF Len(content) = 0
        THEN <<>>
        ELSE IF timestamps /\ Truthy(get(msg, "created_at"))
             THEN LET ts     == msg["created_at"]
                      ts_str == IF ts.kind = "datetime" THEN strftime(ts.s) ELSE ts.s
                  IN  << <<"[">> \o ts_str \o <<"]", " ">> \o author
                             \o <<":", " ">> \o content >>
             ELSE << author \o <<":", " ">> \o content >>

\* Variant of format_lines: the list 'lines' is shared between calls instead of
\* being a fresh local, as a mutable default argument would be.
RECURSIVE format_lines_shared(_, _, _, _)
format_lines_shared(msgs, i, acc, timestamps) ==
    IF i > Len(msgs)
    THEN IF i = 1 THEN lines ELSE acc
    ELSE format_lines_shared(msgs, i + 1,
                             (IF i = 1 THEN lines ELSE acc)
                                 \o format_entry(msgs[i], timestamps),
                             timestamps)

RECURSIVE format_lines(_, _, _, _)
format_lines(msgs, i, acc, timestamps) ==
    IF i > Len(msgs)
    THEN acc
    ELSE format_lines(msgs, i + 1, acc \o format_entry(msgs[i], timestamps),
                      timestamps)

\* sep.join(strs)
RECURSIVE join(_, _)
join(sep, strs) ==
    IF Len(strs) = 0 THEN <<>>
    ELSE IF Len(strs) = 1 THEN strs[1]
    ELSE strs[1] \o sep \o join(sep, Tail(strs))

format_for_llm(msgs, timestamps) ==
    join(<<"\n">>, format_lines(msgs, 1, <<>>, timestamps))

(***************************************************************************)
(* SmartChunker.chunk_and_format.                                          *)
(***************************************************************************)
\* Variant: include_timestamps is not passed on, so its default True applies.
chunk_and_format_default_timestamps(msgs, budget, timestamps) ==
    LET chunks == chunk_messages(msgs, budget)
    IN  [k \in 1..Len(chunks) |-> format_for_llm(chunks[k], TRUE)]

\* Variant: blocks that are empty strings are left out of the list.
chunk_and_format_without_empty_blocks(msgs, budget, timestamps) ==
    LET chunks == chunk_messages(msgs, budget)
        NotEmpty(block) == block # <<>>
    IN  SelectSeq([k \in 1..Len(chunks) |-> format_for_llm(chunks[k], timestamps)],
                  NotEmpty)

chunk_and_format(msgs, budget, timestamps) ==
    LET chunks == chunk_messages(msgs, budget)
    IN  [k \in 1..Len(chunks) |-> format_for_llm(chunks[k], timestamps)]

(***************************************************************************)
(* SmartChunker.stats.  avg_tokens_per_message is held in tenths:          *)
(* round(x, 1) rounds the quotient to one decimal, ties to even (a tie of  *)
(* fewer than 20 messages is an exact binary fraction).                    *)
(***************************************************************************)
RECURSIVE sum_tokens(_, _)
sum_tokens(msgs, i) ==
    IF i > Len(msgs)
    THEN 0
    ELSE estimate_tokens(Or(get(msgs[i], "content"), Str(<<>>)).s)
             + sum_tokens(msgs, i + 1)

\* round(num / den, 1), in tenths.
round1(num, den) ==
    LET q == (10 * num) \div den
        r == (10 * num) % den
    IN  IF 2 * r < den THEN q
        ELSE IF 2 * r > den THEN q + 1
        ELSE IF q % 2 = 0 THEN q ELSE q + 1

\* The sum when a content of None is counted as the text "None".
RECURSIVE sum_tokens_none_as_text(_, _)
sum_tokens_none_as_text(msgs, i) ==
    IF i > Len(msgs)
    THEN 0
    ELSE LET value == get(msgs[i], "content")
         IN  estimate_tokens(IF value.kind = "none"
                             THEN <<"N", "o", "n", "e">> ELSE value.s)
                 + sum_tokens_none_as_text(msgs, i + 1)

\* Variant: a content of None is counted as the text "None".
stats_none_as_text(msgs) ==
    IF Len(msgs) = 0
    THEN [total_messages |-> 0, total_tokens |-> 0, estimated_chunks |-> 0,
          avg_tokens_per_message |-> 0]
    ELSE LET total_tokens     == sum_tokens_none_as_text(msgs, 1)
             estimated_chunks ==
                 max(1, -((-total_tokens) \div DEFAULT_MAX_TOKENS))
         IN  [total_messages |-> Len(msgs),
              total_tokens |-> total_tokens,
              estimated_chunks |-> estimated_chunks,
              avg_tokens_per_message |-> round1(total_tokens, Len(msgs))]

\* Variant: no early return for the empty list; only the average is guarded.
stats_no_early_return(msgs) ==
    LET total_tokens     == sum_tokens(msgs, 1)
        estimated_chunks == max(1, -((-total_tokens) \div DEFAULT_MAX_TOKENS))
    IN  [total_messages |-> Len(msgs),
         total_tokens |-> total_tokens,
         estimated_chunks |-> estimated_chunks,
         avg_tokens_per_message |->
             IF Len(msgs) = 0 THEN 0 ELSE round1(total_tokens, Len(msgs))]

\* Variant: the ceiling is taken as the floor plus one.
stats_floor_plus_one(msgs) ==
    IF Len(msgs) = 0
    THEN [total_messages |-> 0, total_tokens |-> 0, estimated_chunks |-> 0,
          avg_tokens_per_message |-> 0]
    ELSE LET total_tokens     == sum_tokens(msgs, 1)
             estimated_chunks ==
                 max(1, (total_tokens \div DEFAULT_MAX_TOKENS) + 1)
         IN  [total_messages |-> Len(msgs),
              total_tokens |-> total_tokens,
              estimated_chunks |-> estimated_chunks,
              avg_tokens_per_message |-> round1(total_tokens, Len(msgs))]

\* Variant: floor division instead of ceiling division.
stats_floor_division(msgs) ==
    IF Len(msgs) = 0
    THEN [total_messages |-> 0, total_tokens |-> 0, estimated_chunks |-> 0,
          avg_tokens_per_message |-> 0]
    ELSE LET total_tokens     == sum_tokens(msgs, 1)
             estimated_chunks == max(1, total_tokens \div DEFAULT_MAX_TOKENS)
         IN  [total_messages |-> Len(msgs),
              total_tokens |-> total_tokens,
              estimated_chunks |-> estimated_chunks,
              avg_tokens_per_message |-> round1(total_tokens, Len(msgs))]

stats(msgs) ==
    IF Len(msgs) = 0
    THEN [total_messages |-> 0, total_tokens |-> 0, estimated_chunks |-> 0,
          avg_tokens_per_message |-> 0]
    ELSE LET total_tokens     == sum_tokens(msgs, 1)
             estimated_chunks ==
                 max(1, -((-total_tokens) \div DEFAULT_MAX_TOKENS))
         IN  [total_messages |-> Len(msgs),
              total_tokens |-> total_tokens,
              estimated_chunks |-> estimated_chunks,
              avg_tokens_per_message |-> round1(total_tokens, Len(msgs))]

(***************************************************************************)
(* The inputs of the model.                                                *)
(***************************************************************************)
Texts ==
    { <<>>,
      <<" ">>,
      <<" ", "\t", "\n">>,
      <<"a">>,
      <<" ", "a", "\n", "b", " ">>,
      <<"a", " ", "b", " ", "c">>,
      <<"a", " ", "b", " ", "c", " ", "d">>,
      <<"h", "e", "l", "l", "o", " ", "w", "o", "r", "l", "d">> }

ContentTexts ==
    { <<>>,
      <<" ", "\t">>,
      <<"a">>,
      <<" ", "a", "\n", "b", " ">>,
      <<"a", " ", "b", " ", "c">> }

Alice == Str(<<"a", "l">>)

Bob == Str(<<"b", "o">>)

Stamp == Datetime(<<"2", "0", "2", "4", "0", "1", "1", "5",
                    "1", "4", "3", "2", "0", "7">>)

\* Rows as QueryBuilder.channel_messages returns them: every content value,
\* including NULL and a row without the key.
ContentRows ==
    { [content |-> c, author |-> Alice, created_at |-> Stamp] :
        c \in {None} \cup {Str(t) : t \in ContentTexts} }
    \cup { [author |-> Alice, created_at |-> Stamp] }

\* Rows with the other shapes of the author and timestamp fields.
AuthorRows ==
    { [content |-> Str(<<"a">>), current_username |-> Bob],
      [content |-> Str(<<"a">>), author |-> Str(<<>>), current_username |-> Bob,
       created_at |-> Str(<<"t">>)],
      [content |-> Str(<<"a", " ", "b", " ", "c">>), author |-> None,
       current_username |-> Str(<<>>), created_at |-> None] }

Rows == ContentRows \cup AuthorRows

MessageSeqs == UNION { [1..n -> Rows] : n \in 0..MaxMsgs }

Budgets == (-1)..MaxBudget

(***************************************************************************)
(* The state machine: a caller holds a list of rows and makes one call.    *)
(***************************************************************************)
\* No call has been made yet.
NoArgs == [text |-> <<>>, max_tokens |-> 0, include_timestamps |-> FALSE]

NoRepeat ==
    /\ earlier = [op |-> "none", args |-> NoArgs, result |-> <<>>]
    /\ calls = 0

\* No concurrent call is running.
NoThreads == threads = <<>>

\* The database before any import: every table is empty.
EmptyDb == [servers |-> {}, users |-> <<>>, username_history |-> <<>>,
            server_members |-> {}, messages |-> <<>>, calls |-> 0]

\* No export file is being imported.
NoImport ==
    /\ db = EmptyDb
    /\ imp = [file |-> <<>>, runs |-> <<>>]

\* No export has been made: output_dir does not exist yet.
NoExport == export = [output_dir |-> {}, calls |-> <<>>]

\* No request has been sent.
NoRequest == ollama = [prompt |-> "", timeout |-> 0, pc |-> "idle",
                       met |-> "", outcome |-> "", value |-> ""]

\* No template is being filled.
NoFill == fill = [template |-> <<>>, kwargs |-> <<>>, result |-> <<>>,
                  done |-> FALSE]

Init ==
    /\ messages \in MessageSeqs
    /\ op = "none"
    /\ max_tokens = 0
    /\ include_timestamps = FALSE
    /\ text = <<>>
    /\ result = <<>>
    /\ lines = <<>>
    /\ exc = "none"
    /\ tokens_per_word = TOKENS_PER_WORD_TENTHS
    /\ NoRepeat
    /\ NoExport
    /\ NoRequest
    /\ NoThreads
    /\ NoImport
    /\ NoFill

CallEstimateTokens ==
    /\ op = "none"
    /\ \E t \in Texts :
        /\ text' = t
        /\ result' = estimate_tokens(t)
    /\ op' = "estimate_tokens"
    /\ UNCHANGED <<messages, max_tokens, include_timestamps, lines, exc, tokens_per_word>>
    /\ UNCHANGED otherVars

CallChunkMessages ==
    /\ op = "none"
    /\ \E b \in Budgets :
        /\ max_tokens' = b
        /\ result' = chunk_messages(messages, b)
    /\ op' = "chunk_messages"
    /\ UNCHANGED <<messages, include_timestamps, text, lines, exc, tokens_per_word>>
    /\ UNCHANGED otherVars

CallFormatForLlm ==
    /\ op = "none"
    /\ \E ts \in BOOLEAN :
        /\ include_timestamps' = ts
        /\ lines' = format_lines(messages, 1, <<>>, ts)
        /\ result' = format_for_llm(messages, ts)
    /\ op' = "format_for_llm"
    /\ UNCHANGED <<messages, max_tokens, text, exc, tokens_per_word>>
    /\ UNCHANGED otherVars

CallChunkAndFormat ==
    /\ op = "none"
    /\ \E b \in Budgets, ts \in BOOLEAN :
        /\ max_tokens' = b
        /\ include_timestamps' = ts
        /\ result' = chunk_and_format(messages, b, ts)
    /\ op' = "chunk_and_format"
    /\ UNCHANGED <<messages, text, lines, exc, tokens_per_word>>
    /\ UNCHANGED otherVars

CallStats ==
    /\ op = "none"
    /\ result' = stats(messages)
    /\ op' = "stats"
    /\ UNCHANGED <<messages, max_tokens, include_timestamps, text, lines, exc,
                   tokens_per_word>>
    /\ UNCHANGED otherVars

Next ==
    \/ CallEstimateTokens
    \/ CallChunkMessages
    \/ CallFormatForLlm
    \/ CallChunkAndFormat
    \/ CallStats

Spec == Init /\ [][Next]_vars

(***************************************************************************)
(* The statistics caller: a list of rows of up to MaxStatsMsgs rows, under *)
(* the default TOKENS_PER_WORD or under a subclass that sets it to 4000.0, *)
(* so that one word is 4000 tokens and totals pass DEFAULT_MAX_TOKENS.     *)
(***************************************************************************)
TokensPerWordValues == {TOKENS_PER_WORD_TENTHS, 4000 * 10}

StatsSeqs == UNION { [1..n -> ContentRows] : n \in 0..MaxStatsMsgs }

StatsInit ==
    /\ messages \in StatsSeqs
    /\ op = "none"
    /\ max_tokens = 0
    /\ include_timestamps = FALSE
    /\ text = <<>>
    /\ result = <<>>
    /\ lines = <<>>
    /\ exc = "none"
    /\ tokens_per_word \in TokensPerWordValues
    /\ NoRepeat
    /\ NoExport
    /\ NoRequest
    /\ NoThreads
    /\ NoImport
    /\ NoFill

StatsNext == CallStats

SpecStats == StatsInit /\ [][StatsNext]_vars

(***************************************************************************)
(* The repeating caller: it makes a call of estimate_tokens,               *)
(* chunk_messages or format_for_llm, then a call of any method with any    *)
(* arguments, then the first call again with the same arguments.           *)
(***************************************************************************)
Methods ==
    {"estimate_tokens", "chunk_messages", "format_for_llm", "chunk_and_format",
     "stats"}

\* The argument tuples of a method; an argument it does not take is left at
\* its default.
ArgsOf(method) ==
    CASE method = "estimate_tokens" ->
           {[NoArgs EXCEPT !.text = t] : t \in Texts}
      [] method = "chunk_messages" ->
           {[NoArgs EXCEPT !.max_tokens = b] : b \in Budgets}
      [] method = "format_for_llm" ->
           {[NoArgs EXCEPT !.include_timestamps = ts] : ts \in BOOLEAN}
      [] method = "chunk_and_format" ->
           {[NoArgs EXCEPT !.max_tokens = b, !.include_timestamps = ts] :
               b \in Budgets, ts \in BOOLEAN}
      [] method = "stats" -> {NoArgs}

\* One call of a method on the caller's rows.  No method assigns a class
\* attribute or changes the rows; 'lines' is a fresh list in format_for_llm.
Invoke(method, args) ==
    /\ op' = method
    /\ text' = args.text
    /\ max_tokens' = args.max_tokens
    /\ include_timestamps' = args.include_timestamps
    /\ lines' = IF method = "format_for_llm"
                THEN format_lines(messages, 1, <<>>, args.include_timestamps)
                ELSE lines
    /\ result' =
        CASE method = "estimate_tokens" -> estimate_tokens(args.text)
          [] method = "chunk_messages" ->
               chunk_messages(messages, args.max_tokens)
          [] method = "format_for_llm" ->
               format_for_llm(messages, args.include_timestamps)
          [] method = "chunk_and_format" ->
               chunk_and_format(messages, args.max_tokens,
                                args.include_timestamps)
          [] method = "stats" -> stats(messages)
    /\ UNCHANGED <<messages, exc, tokens_per_word>>

RepeatRows ==
    AuthorRows
    \cup { [content |-> None, author |-> Alice, created_at |-> Stamp],
           [content |-> Str(<<" ", "\t">>), author |-> Alice,
            created_at |-> Stamp] }

RepeatSeqs == UNION { [1..n -> RepeatRows] : n \in 0..MaxRepeatMsgs }

RepeatInit ==
    /\ messages \in RepeatSeqs
    /\ op = "none"
    /\ max_tokens = 0
    /\ include_timestamps = FALSE
    /\ text = <<>>
    /\ result = <<>>
    /\ lines = <<>>
    /\ exc = "none"
    /\ tokens_per_word = TOKENS_PER_WORD_TENTHS
    /\ NoRepeat
    /\ NoExport
    /\ NoRequest
    /\ NoThreads
    /\ NoImport
    /\ NoFill

FirstCall ==
    /\ calls = 0
    /\ \E method \in {"estimate_tokens", "chunk_messages", "format_for_llm"} :
        \E args \in ArgsOf(method) :
            /\ Invoke(method, args)
            /\ earlier' = [op |-> method, args |-> args, result |-> result']
    /\ calls' = 1
    /\ UNCHANGED <<threads, importVars, fill, export, ollama>>

CallBetween ==
    /\ calls = 1
    /\ \E method \in Methods : \E args \in ArgsOf(method) : Invoke(method, args)
    /\ calls' = 2
    /\ UNCHANGED <<earlier, threads, importVars, fill, export, ollama>>

CallAgain ==
    /\ calls = 2
    /\ Invoke(earlier.op, earlier.args)
    /\ calls' = 3
    /\ UNCHANGED <<earlier, threads, importVars, fill, export, ollama>>

RepeatNext ==
    \/ FirstCall
    \/ CallBetween
    \/ CallAgain

SpecRepeat == RepeatInit /\ [][RepeatNext]_vars

(***************************************************************************)
(* Two concurrent calls of chunk_messages on disjoint lists of rows.  A    *)
(* step of a call is the entry (lines 94-99), one iteration of the loop    *)
(* (lines 101-113) or the exit (lines 115-118); the steps of the two calls *)
(* interleave in any order.  chunks, current_chunk and current_tokens are  *)
(* locals of the call.                                                     *)
(***************************************************************************)
Threads == {1, 2}

ThreadContents ==
    { Str(<<>>), Str(<<"a">>), Str(<<"a", " ", "b", " ", "c">>) }

\* The rows of the two calls are different rows.
ThreadRows(t) ==
    IF t = 1
    THEN {[content |-> c, author |-> Alice] : c \in ThreadContents}
    ELSE {[content |-> c, current_username |-> Bob] : c \in ThreadContents}

ThreadSeqs(t) == UNION { [1..n -> ThreadRows(t)] : n \in 0..MaxThreadMsgs }

ThreadBudgets == {1, MaxBudget}

ThreadInit ==
    /\ threads \in
        { << [msgs |-> m1, budget |-> b1, pc |-> "entry", i |-> 1,
              chunks |-> <<>>, current_chunk |-> <<>>, current_tokens |-> 0,
              result |-> <<>>],
             [msgs |-> m2, budget |-> b2, pc |-> "entry", i |-> 1,
              chunks |-> <<>>, current_chunk |-> <<>>, current_tokens |-> 0,
              result |-> <<>>] >> :
            m1 \in ThreadSeqs(1), m2 \in ThreadSeqs(2),
            b1 \in ThreadBudgets, b2 \in ThreadBudgets }
    /\ messages = <<>>
    /\ op = "none"
    /\ max_tokens = 0
    /\ include_timestamps = FALSE
    /\ text = <<>>
    /\ result = <<>>
    /\ lines = <<>>
    /\ exc = "none"
    /\ tokens_per_word = TOKENS_PER_WORD_TENTHS
    /\ NoRepeat
    /\ NoExport
    /\ NoRequest
    /\ NoImport
    /\ NoFill

\* Variant: current_tokens is one total shared by the calls.
thread_locals_shared_total(t) ==
    [chunks         |-> threads[t].chunks,
     current_chunk  |-> threads[t].current_chunk,
     current_tokens |-> threads[1].current_tokens]

\* The locals of call t.
thread_locals(t) ==
    [chunks         |-> threads[t].chunks,
     current_chunk  |-> threads[t].current_chunk,
     current_tokens |-> threads[t].current_tokens]

\* if not messages: return []; otherwise the locals are initialised.
ThreadEnter(t) ==
    /\ threads[t].pc = "entry"
    /\ threads' =
        [threads EXCEPT ![t] =
            IF Len(threads[t].msgs) = 0
            THEN [@ EXCEPT !.pc = "done", !.result = <<>>]
            ELSE [@ EXCEPT !.pc = "loop", !.i = 1, !.chunks = <<>>,
                           !.current_chunk = <<>>, !.current_tokens = 0]]
    /\ UNCHANGED <<callVars, repeatVars, importVars, fill, export, ollama>>

\* One iteration of 'for msg in messages'.
ThreadIterate(t) ==
    /\ threads[t].pc = "loop"
    /\ threads[t].i <= Len(threads[t].msgs)
    /\ LET acc == chunk_step(thread_locals(t), threads[t].msgs[threads[t].i],
                             threads[t].budget)
       IN  threads' =
               [threads EXCEPT ![t] =
                   [@ EXCEPT !.i = @ + 1,
                             !.chunks = acc.chunks,
                             !.current_chunk = acc.current_chunk,
                             !.current_tokens = acc.current_tokens]]
    /\ UNCHANGED <<callVars, repeatVars, importVars, fill, export, ollama>>

\* After the loop: the running chunk is flushed and chunks is returned.
ThreadReturn(t) ==
    /\ threads[t].pc = "loop"
    /\ threads[t].i > Len(threads[t].msgs)
    /\ threads' =
        [threads EXCEPT ![t] =
            [@ EXCEPT !.pc = "done",
                      !.result =
                          IF Len(threads[t].current_chunk) > 0
                          THEN Append(threads[t].chunks,
                                      threads[t].current_chunk)
                          ELSE threads[t].chunks]]
    /\ UNCHANGED <<callVars, repeatVars, importVars, fill, export, ollama>>

ThreadNext ==
    \E t \in Threads :
        \/ ThreadEnter(t)
        \/ ThreadIterate(t)
        \/ ThreadReturn(t)

SpecThreads == ThreadInit /\ [][ThreadNext]_vars

(***************************************************************************)
(* Vocabulary of the properties, stated on the inputs and the results      *)
(* without the operators of the model.                                     *)
(***************************************************************************)
\* The content of a row as text: "" when the key is absent or its value None.
ContentOf(msg) ==
    IF "content" \in DOMAIN msg /\ msg["content"].kind = "str"
    THEN msg["content"].s
    ELSE <<>>

\* The positions of the non-whitespace characters of a text.
Inked(chars) == {i \in 1..Len(chars) : ~IsSpace(chars[i])}

WhitespaceOnly(chars) == Inked(chars) = {}

\* The number of whitespace-delimited words: the positions where a word starts.
WordCount(chars) ==
    Cardinality({i \in Inked(chars) : i = 1 \/ IsSpace(chars[i - 1])})

\* The text between the first and the last non-whitespace character.
Trimmed(chars) ==
    IF WhitespaceOnly(chars)
    THEN <<>>
    ELSE LET first == CHOOSE i \in Inked(chars) : \A j \in Inked(chars) : i <= j
             last  == CHOOSE i \in Inked(chars) : \A j \in Inked(chars) : i >= j
         IN  SubSeq(chars, first, last)

\* The token estimate the partitioner charges for a row.
TokensOf(msg) == estimate_tokens(ContentOf(msg))

RECURSIVE SumTokens(_)
SumTokens(chunk) ==
    IF Len(chunk) = 0 THEN 0 ELSE TokensOf(Head(chunk)) + SumTokens(Tail(chunk))

RECURSIVE Flatten(_)
Flatten(chunks) ==
    IF Len(chunks) = 0 THEN <<>> ELSE Head(chunks) \o Flatten(Tail(chunks))

Chunked == op = "chunk_messages"

HelloWorld == <<"h", "e", "l", "l", "o", " ", "w", "o", "r", "l", "d">>

(***************************************************************************)
(* C1 (concatenation law): for a positive max_tokens, the chunks returned  *)
(* by chunk_messages, concatenated in order, are exactly the input: every  *)
(* record is in exactly one chunk and the order is kept.                   *)
(***************************************************************************)
C1_Concatenation ==
    (Chunked /\ max_tokens > 0) => Flatten(result) = messages

C1_Witness ==
    /\ Chunked /\ max_tokens > 0
    /\ Len(messages) = 3
    /\ Len(result) = 2
    /\ Len(result[1]) = 2

(***************************************************************************)
(* C2 (budget law): for a positive max_tokens, every chunk of two or more  *)
(* records has a token total of at most max_tokens; only a chunk of one    *)
(* record may exceed it.                                                   *)
(***************************************************************************)
C2_Budget ==
    (Chunked /\ max_tokens > 0) =>
        \A k \in 1..Len(result) :
            Len(result[k]) >= 2 => SumTokens(result[k]) <= max_tokens

C2_Witness ==
    /\ Chunked /\ max_tokens > 0
    /\ \E k \in 1..Len(result) :
        Len(result[k]) >= 2 /\ SumTokens(result[k]) = max_tokens
    /\ \E k \in 1..Len(result) :
        Len(result[k]) = 1 /\ SumTokens(result[k]) > max_tokens

(***************************************************************************)
(* C3 (no-split guarantee): for a positive max_tokens, a record whose own  *)
(* estimate exceeds max_tokens is the only record of its chunk, whatever   *)
(* its neighbours are (records of estimate 0 included), and it is in the   *)
(* output whole.                                                           *)
(***************************************************************************)
C3_OversizeAlone ==
    (Chunked /\ max_tokens > 0) =>
        /\ \A k \in 1..Len(result) :
            \A j \in 1..Len(result[k]) :
                TokensOf(result[k][j]) > max_tokens => Len(result[k]) = 1
        /\ \A i \in 1..Len(messages) :
            TokensOf(messages[i]) > max_tokens =>
                \E k \in 1..Len(result) : result[k] = <<messages[i]>>

C3_Witness ==
    /\ Chunked /\ max_tokens > 0
    /\ Len(messages) = 3
    /\ TokensOf(messages[1]) = 0
    /\ TokensOf(messages[2]) > max_tokens
    /\ TokensOf(messages[3]) = 0
    /\ Len(result) = 3
    /\ result[2] = <<messages[2]>>

C6_WhitespaceIsZero ==
    (op = "estimate_tokens" /\ WhitespaceOnly(text)) => result = 0

(***************************************************************************)
(* C7 as stated: for a text of word_count >= 1 words, estimate_tokens      *)
(* returns max(1, round(word_count * 1.3)), rounding to the nearest        *)
(* integer; estimate_tokens("hello world") is 3.                           *)
(***************************************************************************)
C7_RoundsToNearest ==
    (op = "estimate_tokens" /\ WordCount(text) >= 1) =>
        /\ result = max(1, (WordCount(text) * 13 + 5) \div 10)
        /\ text = HelloWorld => result = 3

(***************************************************************************)
(* C7 as amended: for a text of word_count >= 1 words, estimate_tokens     *)
(* returns max(1, floor(word_count * 1.3)): the product is truncated, not  *)
(* rounded; estimate_tokens("hello world") is 2.                           *)
(***************************************************************************)
C7_Truncates ==
    (op = "estimate_tokens" /\ WordCount(text) >= 1) =>
        /\ result = max(1, (WordCount(text) * 13) \div 10)
        /\ text = HelloWorld => result = 2

C7_Witness ==
    /\ op = "estimate_tokens"
    /\ text = HelloWorld
    /\ result = 2

(***************************************************************************)
(* C8: chunk_messages and chunk_and_format called with max_tokens zero or  *)
(* negative reject the call with an error instead of returning chunks.     *)
(***************************************************************************)
C8_RejectsNonPositiveBudget ==
    (op \in {"chunk_messages", "chunk_and_format"} /\ max_tokens <= 0) =>
        exc # "none"

(***************************************************************************)
(* Vocabulary of the rendering properties.                                 *)
(***************************************************************************)
Formatted == op = "format_for_llm"

HasInk(msg) == ~WhitespaceOnly(ContentOf(msg))

\* The records that are to be rendered, in input order.
Shown(msgs) == SelectSeq(msgs, HasInk)

EndsWith(chars, suffix) ==
    /\ Len(chars) >= Len(suffix)
    /\ SubSeq(chars, Len(chars) - Len(suffix) + 1, Len(chars)) = suffix

\* The position in the joined text at which entry k starts, when the entries
\* are separated by one character.
RECURSIVE EntryStart(_, _)
EntryStart(entries, k) ==
    IF k = 1 THEN 1 ELSE EntryStart(entries, k - 1) + Len(entries[k - 1]) + 1

\* chars is the entries in order with exactly one newline between two
\* neighbours and nothing before, after or else between them.
JoinedByNewline(chars, entries) ==
    LET n == Len(entries)
    IN  /\ n = 0 => Len(chars) = 0
        /\ n > 0 => Len(chars) = EntryStart(entries, n) + Len(entries[n]) - 1
        /\ \A k \in 1..n :
            LET from == EntryStart(entries, k)
            IN  /\ SubSeq(chars, from, from + Len(entries[k]) - 1) = entries[k]
                /\ k < n => chars[from + Len(entries[k])] = "\n"

(***************************************************************************)
(* C9: format_for_llm emits exactly one entry per input record whose       *)
(* trimmed content is non-empty, in input order, and none for a record     *)
(* whose content is missing, None, empty or whitespace-only; the entries   *)
(* are joined by a single newline with no trailing newline, and the result *)
(* is the empty string when no record has non-empty content.               *)
(***************************************************************************)
C9_OneEntryPerShownRecord ==
    Formatted =>
        LET shown == Shown(messages)
        IN  /\ Len(lines) = Len(shown)
            /\ \A k \in 1..Len(shown) :
                /\ k <= Len(lines)
                /\ EndsWith(lines[k],
                            <<":", " ">> \o Trimmed(ContentOf(shown[k])))
            /\ JoinedByNewline(result, lines)
            /\ Len(shown) = 0 => result = <<>>
            /\ Len(result) > 0 => result[Len(result)] # "\n"

C9_Witness ==
    /\ Formatted
    /\ Len(messages) = 3
    /\ HasInk(messages[1])
    /\ ~HasInk(messages[2]) /\ Len(ContentOf(messages[2])) > 0
    /\ HasInk(messages[3])
    /\ Len(lines) = 2
    /\ \E i \in 1..Len(result) : result[i] = "\n"

(***************************************************************************)
(* Author resolution.  A field is absent when the row lacks the key or     *)
(* holds None; it is blank when it is absent or the empty string.          *)
(***************************************************************************)
Absent(msg, key) == key \notin DOMAIN msg \/ msg[key].kind = "none"

Blank(msg, key) == Absent(msg, key) \/ Len(msg[key].s) = 0

Unknown == <<"u", "n", "k", "n", "o", "w", "n">>

\* 'author' unless absent, else 'current_username' unless absent, else "unknown".
AuthorUnlessAbsent(msg) ==
    IF ~Absent(msg, "author") THEN msg["author"].s
    ELSE IF ~Absent(msg, "current_username") THEN msg["current_username"].s
    ELSE Unknown

\* 'author' unless blank, else 'current_username' unless blank, else "unknown".
AuthorUnlessBlank(msg) ==
    IF ~Blank(msg, "author") THEN msg["author"].s
    ELSE IF ~Blank(msg, "current_username") THEN msg["current_username"].s
    ELSE Unknown

\* The entry is 'author: content', alone or behind a '[...] ' prefix.
EntryNames(entry, msg, author) ==
    LET named  == author \o <<":", " ">> \o Trimmed(ContentOf(msg))
        prefix == SubSeq(entry, 1, Len(entry) - Len(named))
    IN  /\ EndsWith(entry, named)
        /\ \/ Len(prefix) = 0
           \/ /\ Len(prefix) >= 3
              /\ prefix[1] = "["
              /\ prefix[Len(prefix) - 1] = "]"
              /\ prefix[Len(prefix)] = " "

(***************************************************************************)
(* C10 as stated: every rendered record is attributed to its 'author'      *)
(* field; if that is absent, to 'current_username'; if both are absent, to *)
(* the literal "unknown"; and to no other value.                           *)
(***************************************************************************)
C10_AuthorUnlessAbsent ==
    Formatted =>
        LET shown == Shown(messages)
        IN  /\ Len(lines) = Len(shown)
            /\ \A k \in 1..Len(shown) :
                /\ k <= Len(lines)
                /\ EntryNames(lines[k], shown[k], AuthorUnlessAbsent(shown[k]))

(***************************************************************************)
(* C10 as amended: every rendered record is attributed to its 'author'     *)
(* field unless that is absent, None or the empty string; then to          *)
(* 'current_username' unless that is absent, None or the empty string;     *)
(* then to the literal "unknown"; and to no other value.                   *)
(***************************************************************************)
C10_AuthorUnlessBlank ==
    Formatted =>
        LET shown == Shown(messages)
        IN  /\ Len(lines) = Len(shown)
            /\ \A k \in 1..Len(shown) :
                /\ k <= Len(lines)
                /\ EntryNames(lines[k], shown[k], AuthorUnlessBlank(shown[k]))

C10_Witness ==
    /\ Formatted
    /\ Len(messages) = 3
    /\ Len(lines) = 3
    /\ ~Blank(messages[1], "author")
    /\ ~Absent(messages[2], "author") /\ Blank(messages[2], "author")
    /\ ~Blank(messages[2], "current_username")
    /\ EntryNames(lines[2], messages[2], messages[2]["current_username"].s)
    /\ Blank(messages[3], "author") /\ Blank(messages[3], "current_username")
    /\ EntryNames(lines[3], messages[3], Unknown)

(***************************************************************************)
(* Timestamps.  A row has a created_at value when the key is present and   *)
(* not None.                                                               *)
(***************************************************************************)
HasStamp(msg) == ~Absent(msg, "created_at")

\* The untimed form of a row: 'author: content'.
Untimed(msg) ==
    AuthorUnlessBlank(msg) \o <<":", " ">> \o Trimmed(ContentOf(msg))

\* prefix is '[YYYY-MM-DD HH:MM] ' for the datetime digits YYYYMMDDHHMMSS,
\* and '[' str(value) '] ' for any other value.
IsStampPrefix(prefix, value) ==
    IF value.kind = "datetime"
    THEN /\ Len(prefix) = 19
         /\ prefix[1] = "[" /\ prefix[18] = "]" /\ prefix[19] = " "
         /\ prefix[6] = "-" /\ prefix[9] = "-"
         /\ prefix[12] = " " /\ prefix[15] = ":"
         /\ \A i \in 1..4 : prefix[1 + i] = value.s[i]
         /\ \A i \in 5..6 : prefix[2 + i] = value.s[i]
         /\ \A i \in 7..8 : prefix[3 + i] = value.s[i]
         /\ \A i \in 9..10 : prefix[4 + i] = value.s[i]
         /\ \A i \in 11..12 : prefix[5 + i] = value.s[i]
    ELSE prefix = <<"[">> \o value.s \o <<"]", " ">>

(***************************************************************************)
(* C11: a record is rendered with a '[timestamp] ' prefix if and only if   *)
(* include_timestamps is true and the record has a created_at value;       *)
(* otherwise it is rendered as 'author: content' with no placeholder, and  *)
(* the choice is made record by record.                                    *)
(***************************************************************************)
C11_StampPerRecord ==
    Formatted =>
        LET shown == Shown(messages)
        IN  /\ Len(lines) = Len(shown)
            /\ \A k \in 1..Len(shown) :
                /\ k <= Len(lines)
                /\ IF include_timestamps /\ HasStamp(shown[k])
                   THEN /\ EndsWith(lines[k], Untimed(shown[k]))
                        /\ IsStampPrefix(
                               SubSeq(lines[k], 1,
                                      Len(lines[k]) - Len(Untimed(shown[k]))),
                               shown[k]["created_at"])
                   ELSE lines[k] = Untimed(shown[k])

C11_Witness ==
    /\ Formatted
    /\ include_timestamps
    /\ Len(messages) = 3
    /\ Len(lines) = 3
    /\ HasStamp(messages[1]) /\ lines[1][1] = "["
    /\ ~HasStamp(messages[2]) /\ lines[2] = Untimed(messages[2])
    /\ HasStamp(messages[3]) /\ lines[3][1] = "["
    /\ messages[1]["created_at"].kind # messages[3]["created_at"].kind

(***************************************************************************)
(* C12: chunk_and_format(M, max_tokens, include_timestamps) returns one    *)
(* block per chunk of chunk_messages(M, max_tokens), and block i is        *)
(* format_for_llm of chunk i with the same include_timestamps.             *)
(***************************************************************************)
C12_BlockPerChunk ==
    op = "chunk_and_format" =>
        LET chunks == chunk_messages(messages, max_tokens)
        IN  /\ Len(result) = Len(chunks)
            /\ \A i \in 1..Len(chunks) :
                result[i] = format_for_llm(chunks[i], include_timestamps)

C12_Witness ==
    /\ op = "chunk_and_format"
    /\ ~include_timestamps
    /\ Len(messages) = 3
    /\ Len(result) = 2
    /\ Len(result[1]) > 0
    /\ Len(result[2]) > 0
    /\ result[1] # result[2]
    /\ \E i \in 1..Len(messages) : HasStamp(messages[i])

(***************************************************************************)
(* Vocabulary of the statistics properties.                                *)
(***************************************************************************)
Counted == op = "stats"

\* ceil(n / d) for n >= 0 and d > 0.
CeilDiv(n, d) == (n + d - 1) \div d

(***************************************************************************)
(* C13: stats on the empty sequence returns total_messages 0,              *)
(* total_tokens 0, estimated_chunks 0 and avg_tokens_per_message 0, and    *)
(* raises no division error.                                               *)
(***************************************************************************)
C13_EmptyStats ==
    (Counted /\ Len(messages) = 0) =>
        /\ result.total_messages = 0
        /\ result.total_tokens = 0
        /\ result.estimated_chunks = 0
        /\ result.avg_tokens_per_message = 0
        /\ exc = "none"

C13_Witness ==
    /\ Counted
    /\ Len(messages) = 0
    /\ result.estimated_chunks = 0
    /\ exc = "none"

(***************************************************************************)
(* C14 as stated: stats reports estimated_chunks = ceil(total_tokens /     *)
(* 8000), at least 1 only when total_tokens > 0, so 0 for a non-empty      *)
(* sequence whose records all estimate to 0 tokens; 4 records totalling    *)
(* 16000 tokens give 2.                                                    *)
(***************************************************************************)
C14_CeilOfTotal ==
    Counted =>
        /\ result.estimated_chunks = CeilDiv(SumTokens(messages), 8000)
        /\ (Len(messages) = 4 /\ SumTokens(messages) = 16000) =>
               result.estimated_chunks = 2

(***************************************************************************)
(* C14 as amended: for a non-empty sequence stats reports estimated_chunks *)
(* = max(1, ceil(total_tokens / 8000)), so 1 also when all its records     *)
(* estimate to 0 tokens; only the empty sequence gives 0; 4 records        *)
(* totalling 16000 tokens give 2.                                          *)
(***************************************************************************)
C14_CeilAtLeastOne ==
    Counted =>
        /\ result.estimated_chunks =
               IF Len(messages) = 0
               THEN 0
               ELSE max(1, CeilDiv(SumTokens(messages), 8000))
        /\ (Len(messages) = 4 /\ SumTokens(messages) = 16000) =>
               result.estimated_chunks = 2

C14_Witness ==
    /\ Counted
    /\ Len(messages) = 4
    /\ SumTokens(messages) = 16000
    /\ result.total_tokens = 16000
    /\ result.estimated_chunks = 2

(***************************************************************************)
(* Rows without content.                                                   *)
(***************************************************************************)
LacksContent(msg) == Absent(msg, "content")

\* The row with its content set to the empty string.
WithEmptyContent(msg) ==
    [key \in DOMAIN msg \cup {"content"} |->
        IF key = "content" THEN Str(<<>>) ELSE msg[key]]

\* The rows, with "" for the content of every row that lacks it.
Blanked(msgs) ==
    [i \in 1..Len(msgs) |->
        IF LacksContent(msgs[i]) THEN WithEmptyContent(msgs[i]) ELSE msgs[i]]

\* The number of records of each chunk.
Shape(chunks) == [k \in 1..Len(chunks) |-> Len(chunks[k])]

(***************************************************************************)
(* C15: a record whose content is missing or None is treated as having     *)
(* empty content by chunk_messages, stats and format_for_llm: it counts 0  *)
(* tokens, stays in its chunk, is not rendered, and no operation raises,   *)
(* so the other records of the batch are processed as usual.               *)
(***************************************************************************)
C15_MissingContentIsEmpty ==
    /\ Chunked =>
        /\ exc = "none"
        /\ Flatten(result) = messages
        /\ Shape(result) = Shape(chunk_messages(Blanked(messages), max_tokens))
    /\ Counted =>
        /\ exc = "none"
        /\ result.total_messages = Len(messages)
        /\ result = stats(Blanked(messages))
    /\ Formatted =>
        /\ exc = "none"
        /\ Len(lines) = Len(Shown(messages))
        /\ result = format_for_llm(Blanked(messages), include_timestamps)

C15_Witness ==
    /\ Chunked
    /\ max_tokens = 1
    /\ Len(messages) = 3
    /\ TokensOf(messages[1]) = 1
    /\ "content" \notin DOMAIN messages[2]
    /\ TokensOf(messages[3]) = 1
    /\ Shape(result) = <<2, 1>>
    /\ result[1][2] = messages[2]

C17_InterleavingIsInvisible ==
    \A t \in DOMAIN threads :
        threads[t].pc = "done" =>
            threads[t].result =
                chunk_messages(threads[t].msgs, threads[t].budget)

C17_Witness ==
    /\ DOMAIN threads = {1, 2}
    /\ threads[1].pc = "done"
    /\ Len(threads[1].msgs) = 2
    /\ Len(threads[1].result) = 2
    /\ threads[2].pc = "loop"
    /\ threads[2].i = 2
    /\ threads[2].current_tokens > 0
    /\ threads[2].budget # threads[1].budget

(***************************************************************************)
(* The importer, src/collectors/importer.py.                               *)
(*                                                                         *)
(* An Optional value is a sequence: None is <<>> and a value v is <<v>>.   *)
(* A JSON scalar read from the export is a record [kind, s, n]: kind       *)
(* "null", kind "str" with text s, or kind "int" with value n.  A JSON     *)
(* object is a function from the keys it has; a text that is absent is "". *)
(***************************************************************************)
MaxFileMsgs == 2

MaxRuns == 2

NoValue == <<>>

Some(v) == <<v>>

JNull == [kind |-> "null", s |-> "", n |-> 0]

JStr(s) == [kind |-> "str", s |-> s, n |-> 0]

JInt(n) == [kind |-> "int", s |-> "", n |-> n]

\* dict.get(key, default)
get_default(d, key, default) == IF key \in DOMAIN d THEN d[key] ELSE default

\* int(s) of the texts that occur as ids; any other text raises ValueError.
int == ("1" :> 1) @@ ("2" :> 2) @@ ("7" :> 7) @@ ("9" :> 9)

_parse_discord_id(raw) ==
    IF raw.kind = "null" THEN NoValue
    ELSE IF raw.kind = "int" THEN Some(raw.n)
    ELSE IF raw.s \in DOMAIN int THEN Some(int[raw.s])
    ELSE NoValue

\* datetime.fromisoformat(ts) brought to naive UTC, of the texts that are
\* ISO 8601; any other text raises ValueError.
fromisoformat ==
    ("2024-01-15T14:32:00.000+00:00" :> "2024-01-15 14:32:00")
    @@ ("2024-01-15T16:32:00.000+02:00" :> "2024-01-15 14:32:00")
    @@ ("2024-01-15T14:32:00" :> "2024-01-15 14:32:00")

_parse_timestamp(ts) ==
    IF ts = "" THEN NoValue
    ELSE IF ts \in DOMAIN fromisoformat THEN Some(fromisoformat[ts])
    ELSE NoValue

\* The display name, as the sequence of its parts.
_format_username(author) ==
    LET name == get_default(author, "name", "unknown")
        nickname == get_default(author, "nickname", "")
        display == IF nickname # "" THEN nickname ELSE name
        discriminator == get_default(author, "discriminator", "0000")
    IN  IF discriminator # "" /\ discriminator # "0000" /\ discriminator # "0"
        THEN <<display, "#", discriminator>>
        ELSE <<display>>

THREAD_TYPES == {"GuildPublicThread", "GuildPrivateThread", "GuildNewsThread"}

(***************************************************************************)
(* class Database.  Each method takes the database d and yields the        *)
(* database after its commit; d.calls counts the method calls.  user_id is *)
(* the serial of the users table: the position of the row.  The columns    *)
(* set from NOW() are left out.                                            *)
(***************************************************************************)
upsert_server(d, server_id, server_name) ==
    [d EXCEPT !.servers = {r \in @ : r.server_id # server_id}
                          \cup {[server_id |-> server_id,
                                 server_name |-> server_name]},
              !.calls = @ + 1]

\* Yields [db, user_id].
upsert_user(d, discord_id, username) ==
    LET found == {k \in 1..Len(d.users) : d.users[k].discord_id = discord_id}
    IN  IF found = {}
        THEN [db |-> [d EXCEPT !.users =
                          Append(@, [discord_id |-> discord_id,
                                     current_username |-> username]),
                                !.calls = @ + 1],
              user_id |-> Len(d.users) + 1]
        ELSE LET user_id == CHOOSE k \in found : TRUE
                 current_username == d.users[user_id].current_username
             IN  IF current_username # username
                 THEN [db |-> [d EXCEPT
                                 !.username_history =
                                     Append(@, [user_id |-> user_id,
                                                username |-> username,
                                                changed_from |-> current_username]),
                                 !.users[user_id].current_username = username,
                                 !.calls = @ + 1],
                       user_id |-> user_id]
                 ELSE [db |-> [d EXCEPT !.calls = @ + 1], user_id |-> user_id]

upsert_server_member(d, server_id, user_id) ==
    [d EXCEPT !.server_members =
                  @ \cup {[server_id |-> server_id, user_id |-> user_id]},
              !.calls = @ + 1]

\* Yields [db, is_new].  row is the tuple of values of the INSERT.
upsert_message(d, row) ==
    LET found == {k \in 1..Len(d.messages) :
                      d.messages[k].message_id = row.message_id}
        is_new == found = {}
    IN  IF is_new
        THEN [db |-> [d EXCEPT !.messages = Append(@, row), !.calls = @ + 1],
              is_new |-> TRUE]
        ELSE LET k == CHOOSE k \in found : TRUE
             IN  [db |-> [d EXCEPT !.messages[k].content = row.content,
                                   !.messages[k].edited_at = row.edited_at,
                                   !.calls = @ + 1],
                  is_new |-> FALSE]

(***************************************************************************)
(* import_file.  The loop body takes acc = [db, stats] to its successor.   *)
(***************************************************************************)
\* The text stored for a message: its content, or the note of its
\* attachments when it has no content.
content_of(msg) ==
    LET content == get_default(msg, "content", "")
        attachments == get_default(msg, "attachments", <<>>)
    IN  IF attachments # <<>> /\ content = ""
        THEN <<"[">>
             \o [k \in 1..Len(attachments) |->
                    get_default(attachments[k], "fileName", "attachment")]
             \o <<"]">>
        ELSE <<content>>

\* A Database method that raises: the call is made, nothing is committed.
raises(d) == [d EXCEPT !.calls = @ + 1]

\* stats[key] += 1
Count(counts, key) == [counts EXCEPT ![key] = @ + 1]

\* Variant: the except clause logs the error and does not count it.
import_message_errors_uncounted(acc, msg, server_id, channel, fault) ==
    LET message_id == _parse_discord_id(get_default(msg, "id", JNull))
        author == get_default(msg, "author", <<>>)
        author_discord_id == _parse_discord_id(get_default(author, "id", JNull))
    IN  IF message_id = NoValue
        THEN [acc EXCEPT !.stats = Count(@, "skipped")]
        ELSE IF author_discord_id = NoValue
        THEN [acc EXCEPT !.stats = Count(@, "skipped")]
        ELSE
        LET username == _format_username(author)
            user == upsert_user(acc.db, author_discord_id[1], username)
            member == upsert_server_member(user.db, server_id, user.user_id)
            created_at == _parse_timestamp(get_default(msg, "timestamp", ""))
            edited_at ==
                _parse_timestamp(get_default(msg, "timestampEdited", ""))
            reference == get_default(msg, "reference", <<>>)
            reply_to ==
                _parse_discord_id(get_default(reference, "messageId", JNull))
        IN  IF fault = "upsert_user"
            THEN [db |-> raises(acc.db), stats |-> acc.stats]
            ELSE IF fault = "upsert_server_member"
            THEN [db |-> raises(user.db), stats |-> acc.stats]
            ELSE IF created_at = NoValue
            THEN [db |-> member, stats |-> Count(acc.stats, "skipped")]
            ELSE IF fault = "upsert_message"
            THEN [db |-> raises(member), stats |-> acc.stats]
            ELSE
            LET stored ==
                    upsert_message(member,
                        [message_id |-> message_id[1],
                         server_id |-> server_id,
                         channel_id |-> channel.channel_id,
                         channel_name |-> channel.channel_name,
                         user_id |-> user.user_id,
                         content |-> content_of(msg),
                         created_at |-> created_at,
                         edited_at |-> edited_at,
                         reply_to_message_id |-> reply_to,
                         thread_id |-> channel.thread_id])
            IN  [db |-> stored.db,
                 stats |-> Count(acc.stats,
                                 IF stored.is_new THEN "new" ELSE "updated")]

import_message(acc, msg, server_id, channel, fault) ==
    LET message_id == _parse_discord_id(get_default(msg, "id", JNull))
        author == get_default(msg, "author", <<>>)
        author_discord_id == _parse_discord_id(get_default(author, "id", JNull))
    IN  IF message_id = NoValue
        THEN [acc EXCEPT !.stats = Count(@, "skipped")]
        ELSE IF author_discord_id = NoValue
        THEN [acc EXCEPT !.stats = Count(@, "skipped")]
        ELSE
        LET username == _format_username(author)
            user == upsert_user(acc.db, author_discord_id[1], username)
            member == upsert_server_member(user.db, server_id, user.user_id)
            created_at == _parse_timestamp(get_default(msg, "timestamp", ""))
            edited_at ==
                _parse_timestamp(get_default(msg, "timestampEdited", ""))
            reference == get_default(msg, "reference", <<>>)
            reply_to ==
                _parse_discord_id(get_default(reference, "messageId", JNull))
        IN  IF fault = "upsert_user"
            THEN [db |-> raises(acc.db), stats |-> Count(acc.stats, "errors")]
            ELSE IF fault = "upsert_server_member"
            THEN [db |-> raises(user.db), stats |-> Count(acc.stats, "errors")]
            ELSE IF created_at = NoValue
            THEN [db |-> member, stats |-> Count(acc.stats, "skipped")]
            ELSE IF fault = "upsert_message"
            THEN [db |-> raises(member), stats |-> Count(acc.stats, "errors")]
            ELSE
            LET stored ==
                    upsert_message(member,
                        [message_id |-> message_id[1],
                         server_id |-> server_id,
                         channel_id |-> channel.channel_id,
                         channel_name |-> channel.channel_name,
                         user_id |-> user.user_id,
                         content |-> content_of(msg),
                         created_at |-> created_at,
                         edited_at |-> edited_at,
                         reply_to_message_id |-> reply_to,
                         thread_id |-> channel.thread_id])
            IN  [db |-> stored.db,
                 stats |-> Count(acc.stats,
                                 IF stored.is_new THEN "new" ELSE "updated")]

\* faults names, for each message, the Database method that raises while
\* the message is imported, or "none".
RECURSIVE import_messages(_, _, _, _, _)
import_messages(acc, msgs, server_id, channel, faults) ==
    IF msgs = <<>> THEN acc
    ELSE import_messages(
             import_message(acc, Head(msgs), server_id, channel, Head(faults)),
             Tail(msgs), server_id, channel, Tail(faults))

NoStats == [new |-> 0, updated |-> 0, skipped |-> 0, errors |-> 0]

\* return stats, with the database as the call leaves it.
returns(d, counts) == [db |-> d, stats |-> counts, raised |-> "none"]

\* Variant: the dry-run branch is missing, a dry run imports.
import_file_ignores_dry_run(file, d, dry_run, faults) ==
    IF ~file.readable
    THEN returns(d, Count(NoStats, "errors"))
    ELSE
    LET data == file.data
        guild == get_default(data, "guild", <<>>)
        server_id == _parse_discord_id(get_default(guild, "id", JNull))
        server_name == get_default(guild, "name", "Unknown Server")
        channel == get_default(data, "channel", <<>>)
        channel_id == _parse_discord_id(get_default(channel, "id", JNull))
        channel_name == get_default(channel, "name", "unknown")
        channel_type == get_default(channel, "type", "")
        is_thread == channel_type \in THREAD_TYPES
        thread_id == IF is_thread THEN channel_id ELSE NoValue
        msgs == get_default(data, "messages", <<>>)
    IN  IF server_id = NoValue
        THEN returns(d, Count(NoStats, "errors"))
        ELSE IF channel_id = NoValue
        THEN returns(d, Count(NoStats, "errors"))
        ELSE IF faults.upsert_server
        THEN [db |-> raises(d), stats |-> NoStats, raised |-> "Exception"]
        ELSE LET acc == import_messages(
                            [db |-> upsert_server(d, server_id[1], server_name),
                             stats |-> NoStats],
                            msgs, server_id[1],
                            [channel_id |-> channel_id[1],
                             channel_name |-> channel_name,
                             thread_id |-> thread_id],
                            faults.messages)
             IN  returns(acc.db, acc.stats)

\* import_file(json_path, db, dry_run): yields the database after the call
\* and the stats returned, or the exception raised.  file.readable is
\* whether open and json.load succeed, file.data is the object loaded;
\* faults names the Database calls that raise: upsert_server, which is
\* outside the try of the loop, and for each message one method or "none".
import_file(file, d, dry_run, faults) ==
    IF ~file.readable
    THEN returns(d, Count(NoStats, "errors"))
    ELSE
    LET data == file.data
        guild == get_default(data, "guild", <<>>)
        server_id == _parse_discord_id(get_default(guild, "id", JNull))
        server_name == get_default(guild, "name", "Unknown Server")
        channel == get_default(data, "channel", <<>>)
        channel_id == _parse_discord_id(get_default(channel, "id", JNull))
        channel_name == get_default(channel, "name", "unknown")
        channel_type == get_default(channel, "type", "")
        is_thread == channel_type \in THREAD_TYPES
        thread_id == IF is_thread THEN channel_id ELSE NoValue
        msgs == get_default(data, "messages", <<>>)
    IN  IF server_id = NoValue
        THEN returns(d, Count(NoStats, "errors"))
        ELSE IF channel_id = NoValue
        THEN returns(d, Count(NoStats, "errors"))
        ELSE IF dry_run
        THEN returns(d, [NoStats EXCEPT !.new = Len(msgs)])
        ELSE IF faults.upsert_server
        THEN [db |-> raises(d), stats |-> NoStats, raised |-> "Exception"]
        ELSE LET acc == import_messages(
                            [db |-> upsert_server(d, server_id[1], server_name),
                             stats |-> NoStats],
                            msgs, server_id[1],
                            [channel_id |-> channel_id[1],
                             channel_name |-> channel_name,
                             thread_id |-> thread_id],
                            faults.messages)
             IN  returns(acc.db, acc.stats)

\* The database does not fail.
NoFaults(file) ==
    [upsert_server |-> FALSE,
     messages |-> [k \in 1..Len(IF file.readable
                                THEN get_default(file.data, "messages", <<>>)
                                ELSE <<>>) |-> "none"]]

(***************************************************************************)
(* The export files.  Two webhook authors share one id under two display   *)
(* names; a legacy account has a discriminator and no nickname; an author  *)
(* without id.  Message ids arrive as text or as number.                   *)
(***************************************************************************)
IsoStamp == "2024-01-15T14:32:00.000+00:00"

Authors ==
    { [id |-> JStr("1"), name |-> "hook", nickname |-> "al",
       discriminator |-> "0000"],
      [id |-> JStr("1"), name |-> "hook", nickname |-> "bo",
       discriminator |-> "0"],
      [id |-> JInt(2), name |-> "carol", discriminator |-> "1234"] }

Contents ==
    { [content |-> "hi", attachments |-> <<>>],
      [content |-> "", attachments |-> <<[fileName |-> "a.png"]>>] }

FileMessages ==
    { [id |-> i, author |-> a, timestamp |-> IsoStamp, content |-> c.content,
       attachments |-> c.attachments] :
        i \in {JStr("1"), JInt(2)}, a \in Authors, c \in Contents }
    \cup { [author |-> [id |-> JInt(2), name |-> "carol"],
            timestamp |-> IsoStamp, content |-> "hi"],
           [id |-> JInt(1), author |-> [name |-> "carol"],
            timestamp |-> IsoStamp, content |-> "hi"],
           [id |-> JInt(1), author |-> [id |-> JInt(2), name |-> "carol"],
            timestamp |-> "yesterday", content |-> "hi"],
           [id |-> JStr("x"), author |-> [id |-> JInt(2), name |-> "carol"],
            content |-> "hi"] }

FileMessageSeqs == UNION { [1..n -> FileMessages] : n \in 0..MaxFileMsgs }

Guilds == { [id |-> JStr("7"), name |-> "srv"], [name |-> "srv"] }

Channels == { [id |-> JStr("9"), name |-> "general", type |-> "GuildTextChat"],
              [id |-> JInt(9), name |-> "help", type |-> "GuildPublicThread"],
              [id |-> JStr("general"), name |-> "general"] }

ExportFiles ==
    { [readable |-> TRUE,
       data |-> [guild |-> g, channel |-> c, messages |-> m]] :
        g \in Guilds, c \in Channels, m \in FileMessageSeqs }
    \cup { [readable |-> FALSE, data |-> <<>>] }

ImportInit ==
    /\ db = EmptyDb
    /\ imp \in { [file |-> f, runs |-> <<>>] : f \in ExportFiles }
    /\ messages = <<>>
    /\ op = "none"
    /\ max_tokens = 0
    /\ include_timestamps = FALSE
    /\ text = <<>>
    /\ result = <<>>
    /\ lines = <<>>
    /\ exc = "none"
    /\ tokens_per_word = TOKENS_PER_WORD_TENTHS
    /\ NoRepeat
    /\ NoExport
    /\ NoRequest
    /\ NoThreads
    /\ NoFill

\* One call import_file(json_path, db, dry_run).
CallImportFile(dry_run) ==
    /\ Len(imp.runs) < MaxRuns
    /\ LET returned == import_file(imp.file, db, dry_run, NoFaults(imp.file))
       IN  /\ db' = returned.db
           /\ imp' = [imp EXCEPT !.runs =
                         Append(@, [dry_run |-> dry_run, before |-> db,
                                    after |-> returned.db,
                                    stats |-> returned.stats])]
    /\ UNCHANGED <<callVars, repeatVars, threads, fill, export, ollama>>

ImportNext == \E dry_run \in BOOLEAN : CallImportFile(dry_run)

SpecImport == ImportInit /\ [][ImportNext]_vars

(***************************************************************************)
(* Vocabulary of the importer properties.                                  *)
(***************************************************************************)
\* The positions of the calls made that were real imports, and dry runs.
RealRuns == {k \in 1..Len(imp.runs) : ~imp.runs[k].dry_run}

DryRuns == {k \in 1..Len(imp.runs) : imp.runs[k].dry_run}

\* The ids in the messages table, and the text stored under an id.
StoredIds(d) == {d.messages[k].message_id : k \in 1..Len(d.messages)}

StoredContent(d, id) ==
    {d.messages[k].content :
        k \in {j \in 1..Len(d.messages) : d.messages[j].message_id = id}}

NoDuplicateRows(d) ==
    \A j, k \in 1..Len(d.messages) :
        d.messages[j].message_id = d.messages[k].message_id => j = k

\* k is a real import that follows the real import j of the same file.
Rerun(j, k) == j \in RealRuns /\ k \in RealRuns /\ j < k

SameMessages(j, k) ==
    /\ StoredIds(imp.runs[k].after) = StoredIds(imp.runs[j].after)
    /\ NoDuplicateRows(imp.runs[k].after)
    /\ \A id \in StoredIds(imp.runs[j].after) :
        StoredContent(imp.runs[k].after, id) = StoredContent(imp.runs[j].after, id)

NoFurtherHistory(k) ==
    imp.runs[k].after.username_history = imp.runs[k].before.username_history

\* The messages that the import j stored are all counted as updated by k.
AllCountedUpdated(j, k) ==
    /\ imp.runs[k].stats.new = 0
    /\ imp.runs[k].stats.updated
           = imp.runs[j].stats.new + imp.runs[j].stats.updated

\* C18: a second import of the same export file leaves the messages table
\* with the same ids, without duplicate rows and with the same content,
\* adds no username_history row, and counts every message stored by the
\* first import as updated and none as new.
C18_Idempotent ==
    \A j, k \in 1..Len(imp.runs) :
        Rerun(j, k) =>
            /\ SameMessages(j, k)
            /\ NoFurtherHistory(k)
            /\ AllCountedUpdated(j, k)

\* The part of C18 about the messages table and the counts.
C18_MessagesIdempotent ==
    \A j, k \in 1..Len(imp.runs) :
        Rerun(j, k) => SameMessages(j, k) /\ AllCountedUpdated(j, k)

\* The messages of the export file, none when it cannot be read.
FileMessagesOf(file) ==
    IF file.readable /\ "messages" \in DOMAIN file.data
    THEN file.data.messages ELSE <<>>

\* obj carries an id that is a number or the text of one.
HasId(obj) ==
    /\ "id" \in DOMAIN obj
    /\ \/ obj.id.kind = "int"
       \/ obj.id.kind = "str" /\ obj.id.s \in {"1", "2", "7", "9"}

\* The file is read and names its guild and its channel by id.
Accepted(file) ==
    /\ file.readable
    /\ "guild" \in DOMAIN file.data /\ HasId(file.data.guild)
    /\ "channel" \in DOMAIN file.data /\ HasId(file.data.channel)

Untouched(k) == imp.runs[k].after = imp.runs[k].before

MaxPieces == 2

\* str(value)
str(value) == IF value.kind = "none" THEN <<"N", "o", "n", "e">> ELSE value.s

\* s.replace(old, new) for a non-empty old: the occurrences of old found
\* from left to right, without overlap.
RECURSIVE str_replace(_, _, _)
str_replace(s, old, new) ==
    IF Len(s) < Len(old) THEN s
    ELSE IF SubSeq(s, 1, Len(old)) = old
    THEN new \o str_replace(SubSeq(s, Len(old) + 1, Len(s)), old, new)
    ELSE <<Head(s)>> \o str_replace(Tail(s), old, new)

\* f"{{{key}}}"
marker(key) == <<"{">> \o key \o <<"}">>

RECURSIVE _fill_template(_, _)
_fill_template(template, kwargs) ==
    IF kwargs = <<>> THEN template
    ELSE _fill_template(
             str_replace(template, marker(Head(kwargs).key),
                         str(Head(kwargs).value)),
             Tail(kwargs))

\* The templates: up to MaxPieces pieces, each a marker or a piece of text.
Keys == {<<"u">>, <<"m">>}

Pieces == {marker(key) : key \in Keys} \cup {<<"-">>, <<"{">>, <<"}">>}

RECURSIVE Templates(_)
Templates(n) ==
    IF n = 0 THEN {<<>>}
    ELSE Templates(n - 1)
         \cup {t \o p : t \in Templates(n - 1), p \in Pieces}

\* The values: plain text, text that is a marker, a brace, "" and None.
Values ==
    {Str(<<"x">>), Str(<<"{">>), Str(<<>>), None}
    \cup {Str(marker(key)) : key \in Keys}

\* The keyword arguments: distinct keys in any order.
Kwargs ==
    {<<>>}
    \cup {<<[key |-> k, value |-> v]>> : k \in Keys, v \in Values}
    \cup {kw \in {<<[key |-> k1, value |-> v1], [key |-> k2, value |-> v2]>> :
                     k1 \in Keys, k2 \in Keys, v1 \in Values, v2 \in Values} :
            kw[1].key # kw[2].key}

FillInit ==
    /\ fill \in {[template |-> t, kwargs |-> kw, result |-> <<>>,
                  done |-> FALSE] : t \in Templates(MaxPieces), kw \in Kwargs}
    /\ messages = <<>>
    /\ op = "none"
    /\ max_tokens = 0
    /\ include_timestamps = FALSE
    /\ text = <<>>
    /\ result = <<>>
    /\ lines = <<>>
    /\ exc = "none"
    /\ tokens_per_word = TOKENS_PER_WORD_TENTHS
    /\ NoRepeat
    /\ NoExport
    /\ NoRequest
    /\ NoThreads
    /\ NoImport

\* One call _fill_template(template, **kwargs).
CallFillTemplate ==
    /\ ~fill.done
    /\ fill' = [fill EXCEPT !.result = _fill_template(fill.template, fill.kwargs),
                            !.done = TRUE]
    /\ UNCHANGED <<callVars, repeatVars, threads, importVars, export, ollama>>

FillNext == CallFillTemplate

SpecFill == FillInit /\ [][FillNext]_vars

(***************************************************************************)
(* Vocabulary of the template properties.                                  *)
(***************************************************************************)
\* The text a value stands for.
TextOf(value) == IF value = None THEN <<"N", "o", "n", "e">> ELSE value.s

StartsWith(s, prefix) ==
    Len(prefix) <= Len(s) /\ SubSeq(s, 1, Len(prefix)) = prefix

\* The template with each of its own markers replaced by the value of its
\* key: the template is read once, and what a value brings in is not read.
RECURSIVE MarkersReplaced(_, _)
MarkersReplaced(t, kwargs) ==
    IF t = <<>> THEN <<>>
    ELSE LET here == {k \in 1..Len(kwargs) : StartsWith(t, marker(kwargs[k].key))}
         IN  IF here = {}
             THEN <<Head(t)>> \o MarkersReplaced(Tail(t), kwargs)
             ELSE LET k == CHOOSE k \in here : TRUE
                      after == SubSeq(t, Len(marker(kwargs[k].key)) + 1, Len(t))
                  IN  TextOf(kwargs[k].value) \o MarkersReplaced(after, kwargs)

\* The same keyword arguments supplied in every order.
Reorderings(kwargs) ==
    {[k \in 1..Len(kwargs) |-> kwargs[p[k]]] :
        p \in {q \in [1..Len(kwargs) -> 1..Len(kwargs)] :
                  \A i, j \in 1..Len(kwargs) : q[i] = q[j] => i = j}}

\* C20: the result is the template with each marker replaced by its value,
\* it is the same for every order of the keyword arguments, and the text
\* of a value is in it verbatim, a marker inside a value included.
C20_OnlyTemplateMarkers ==
    fill.done =>
        /\ fill.result = MarkersReplaced(fill.template, fill.kwargs)
        /\ \A kw \in Reorderings(fill.kwargs) :
               _fill_template(fill.template, kw) = fill.result

(***************************************************************************)
(* The exporter, src/collectors/exporter.py.  A path of output_dir is a    *)
(* record [stem, suffix]; the directory is the set of its paths.  The      *)
(* exporter CLI is a subprocess: what it writes and its exit status are    *)
(* its own, so a call of export_guild meets any of them.                   *)
(***************************************************************************)
MaxChannels == 3

MaxExports == 2

\* "{GuildName} - {ChannelName} [{ChannelId}].json", one per channel.
ChannelFile(channel_id) == [stem |-> <<"srv - ch", channel_id>>, suffix |-> ".json"]

ChannelFiles == {ChannelFile(c) : c \in 1..MaxChannels}

\* output_dir.glob("*.json")
glob_json(dir) == {f \in dir : f.suffix = ".json"}

\* export_guild(cli, token, guild_id, output_dir, after, before), where the
\* subprocess writes the files generated (replacing those of the same name)
\* and exits with returncode.  Yields the directory after the call, the
\* exception raised and the list returned.
export_guild(output_dir, generated, returncode) ==
    LET files_before == glob_json(output_dir)
        after_run == output_dir \cup generated
    IN  IF returncode # 0
        THEN [output_dir |-> after_run, raised |-> "RuntimeError",
              returned |-> NoValue]
        ELSE [output_dir |-> after_run, raised |-> "none",
              returned |-> Some({f \in glob_json(after_run) :
                                    f \notin files_before})]

ExportInit ==
    /\ export \in {[output_dir |-> d, calls |-> <<>>] :
                     d \in {{}, {[stem |-> <<"notes">>, suffix |-> ".txt"]}}}
    /\ NoImport
    /\ messages = <<>>
    /\ op = "none"
    /\ max_tokens = 0
    /\ include_timestamps = FALSE
    /\ text = <<>>
    /\ result = <<>>
    /\ lines = <<>>
    /\ exc = "none"
    /\ tokens_per_word = TOKENS_PER_WORD_TENTHS
    /\ NoRepeat
    /\ NoRequest
    /\ NoThreads
    /\ NoFill

\* One call of export_guild on the same output_dir.
CallExportGuild ==
    /\ Len(export.calls) < MaxExports
    /\ \E generated \in SUBSET ChannelFiles, returncode \in {0, 1} :
        LET ended == export_guild(export.output_dir, generated, returncode)
        IN  export' = [output_dir |-> ended.output_dir,
                       calls |-> Append(export.calls,
                                        [returncode |-> returncode,
                                         generated |-> generated,
                                         before |-> export.output_dir,
                                         raised |-> ended.raised,
                                         returned |-> ended.returned])]
    /\ UNCHANGED <<callVars, repeatVars, threads, importVars, fill, ollama>>

ExportNext == CallExportGuild

SpecExport == ExportInit /\ [][ExportNext]_vars

\* C21: a call whose CLI exits with 0 returns the files this run generated,
\* also those that replace files of an earlier run; a call whose CLI exits
\* non-zero raises RuntimeError and returns nothing.
C21_ReturnsGenerated ==
    \A k \in 1..Len(export.calls) :
        LET call == export.calls[k]
        IN  IF call.returncode = 0
            THEN call.raised = "none" /\ call.returned = Some(call.generated)
            ELSE call.raised = "RuntimeError" /\ call.returned = NoValue

\* The part of C21 that holds: the files returned are files of this run,
\* all of them when the directory held no JSON file before.
C21_ReturnsNewNames ==
    \A k \in 1..Len(export.calls) :
        LET call == export.calls[k]
        IN  IF call.returncode = 0
            THEN /\ call.raised = "none"
                 /\ call.returned = Some(call.generated \ glob_json(call.before))
            ELSE call.raised = "RuntimeError" /\ call.returned = NoValue

(***************************************************************************)
(* OllamaClient.generate, src/analysis/processor.py.  The server and the   *)
(* network are not the program's: session.post either raises one of the    *)
(* exceptions of requests or yields a response [status_code, body], and a  *)
(* body is a record [json, keys, response]: whether it parses as JSON, the *)
(* keys of the object parsed (none for an array) and its "response".       *)
(***************************************************************************)
\* The classes an exception of requests is an instance of.
RequestsBases ==
    [ConnectTimeout |-> {"ConnectTimeout", "ConnectionError", "Timeout",
                         "RequestException"},
     ReadTimeout |-> {"ReadTimeout", "Timeout", "RequestException"},
     ConnectionError |-> {"ConnectionError", "RequestException"},
     SSLError |-> {"SSLError", "ConnectionError", "RequestException"},
     ProxyError |-> {"ProxyError", "ConnectionError", "RequestException"},
     HTTPError |-> {"HTTPError", "RequestException"},
     TooManyRedirects |-> {"TooManyRedirects", "RequestException"},
     ChunkedEncodingError |-> {"ChunkedEncodingError", "RequestException"},
     JSONDecodeError |-> {"JSONDecodeError", "InvalidJSONError",
                          "RequestException"}]

\* isinstance(exc, cls) for an exception raised in the try block; KeyError
\* and TypeError are builtins and instances of no class of requests.
isinstance(exception, cls) ==
    exception \in DOMAIN RequestsBases /\ cls \in RequestsBases[exception]

\* What session.post can raise.
PostErrors == {"ConnectTimeout", "ReadTimeout", "ConnectionError", "SSLError",
               "ProxyError", "TooManyRedirects", "ChunkedEncodingError"}

Bodies ==
    { [json |-> TRUE, keys |-> {"model", "response", "done"}, response |-> "hi"],
      [json |-> TRUE, keys |-> {"model", "response", "done"}, response |-> ""],
      [json |-> TRUE, keys |-> {"error"}, response |-> ""],
      [json |-> TRUE, keys |-> {}, response |-> ""],
      [json |-> FALSE, keys |-> {}, response |-> ""] }

StatusCodes == {200, 400, 404, 500, 599}

Responses == {[raises |-> "none", status_code |-> c, body |-> b] :
                 c \in StatusCodes, b \in Bodies}

Mets == Responses
        \cup {[raises |-> e, status_code |-> 0, body |-> <<>>] : e \in PostErrors}

\* The try block, lines 102-104: the text returned or the exception raised.
try_block(met) ==
    IF met.raises # "none"
    THEN [outcome |-> "raise", value |-> met.raises]
    ELSE IF 400 <= met.status_code /\ met.status_code < 600
    THEN [outcome |-> "raise", value |-> "HTTPError"]
    ELSE IF ~met.body.json
    THEN [outcome |-> "raise", value |-> "JSONDecodeError"]
    ELSE IF "response" \notin met.body.keys
    THEN [outcome |-> "raise", value |-> "KeyError"]
    ELSE [outcome |-> "return", value |-> met.body.response]

\* Variant: the clause of ConnectionError comes first.
generate_connection_first(met) ==
    LET tried == try_block(met)
    IN  IF tried.outcome = "return" THEN tried
        ELSE IF isinstance(tried.value, "ConnectionError")
        THEN [outcome |-> "raise", value |-> "builtins.ConnectionError"]
        ELSE IF isinstance(tried.value, "Timeout")
        THEN [outcome |-> "raise", value |-> "builtins.TimeoutError"]
        ELSE IF isinstance(tried.value, "HTTPError")
        THEN [outcome |-> "raise", value |-> "builtins.RuntimeError"]
        ELSE tried

\* generate(prompt, timeout) when the request meets met: the first except
\* clause that matches replaces the exception, an exception that matches
\* none is raised as it is.
generate(met) ==
    LET tried == try_block(met)
    IN  IF tried.outcome = "return" THEN tried
        ELSE IF isinstance(tried.value, "Timeout")
        THEN [outcome |-> "raise", value |-> "builtins.TimeoutError"]
        ELSE IF isinstance(tried.value, "ConnectionError")
        THEN [outcome |-> "raise", value |-> "builtins.ConnectionError"]
        ELSE IF isinstance(tried.value, "HTTPError")
        THEN [outcome |-> "raise", value |-> "builtins.RuntimeError"]
        ELSE tried

Prompts == {"", "User al wrote: hi", "Summarise #general"}

Timeouts == {180, 300}

GenerateInit ==
    /\ ollama \in {[prompt |-> p, timeout |-> t, pc |-> "idle", met |-> "",
                    outcome |-> "", value |-> ""] :
                      p \in Prompts, t \in Timeouts}
    /\ messages = <<>>
    /\ op = "none"
    /\ max_tokens = 0
    /\ include_timestamps = FALSE
    /\ text = <<>>
    /\ result = <<>>
    /\ lines = <<>>
    /\ exc = "none"
    /\ tokens_per_word = TOKENS_PER_WORD_TENTHS
    /\ NoRepeat
    /\ NoThreads
    /\ NoImport
    /\ NoFill
    /\ NoExport

\* One call generate(prompt, timeout).
CallGenerate ==
    /\ ollama.pc = "idle"
    /\ \E met \in Mets :
        LET ended == generate(met)
        IN  ollama' = [ollama EXCEPT !.pc = "done", !.met = met,
                                     !.outcome = ended.outcome,
                                     !.value = ended.value]
    /\ UNCHANGED <<callVars, repeatVars, threads, importVars, fill, export>>

GenerateNext == CallGenerate

SpecGenerate == GenerateInit /\ [][GenerateNext]_vars

(***************************************************************************)
(* Vocabulary of the generate properties.                                  *)
(***************************************************************************)
Ended == ollama.pc = "done"

Returned(t) == ollama.outcome = "return" /\ ollama.value = t

Raised(e) == ollama.outcome = "raise" /\ ollama.value = e

\* What the request met.
TimedOut == ollama.met.raises \in {"ConnectTimeout", "ReadTimeout"}

Unreachable == ollama.met.raises \in {"ConnectionError", "SSLError", "ProxyError"}

ErrorStatus ==
    ollama.met.raises = "none" /\ ollama.met.status_code \in 400..599

Answered ==
    /\ ollama.met.raises = "none"
    /\ ollama.met.status_code \notin 400..599
    /\ ollama.met.body.json
    /\ "response" \in ollama.met.body.keys

\* The exceptions of requests for a timeout, a connection and an HTTP error.
RawRequestErrors == {"ConnectTimeout", "ReadTimeout", "Timeout",
                     "ConnectionError", "SSLError", "ProxyError", "HTTPError"}

CallChunkDefault ==
    /\ op = "none"
    /\ max_tokens' = DEFAULT_MAX_TOKENS
    /\ result' = chunk_messages(messages, DEFAULT_MAX_TOKENS)
    /\ op' = "chunk_messages"
    /\ UNCHANGED <<messages, include_timestamps, text, lines, exc, tokens_per_word>>
    /\ UNCHANGED otherVars

DefaultNext ==
    \/ CallStats
    \/ CallChunkMessages
    \/ CallChunkDefault

SpecDefault == StatsInit /\ [][DefaultNext]_vars

\* Three records of 4000 tokens each.
ThreeOf4000 ==
    /\ Len(messages) = 3
    /\ \A i \in 1..3 : TokensOf(messages[i]) = 4000

(***************************************************************************)
(* C24 (maximal runs): of two consecutive chunks, the total of the earlier *)
(* plus the estimate of the first record of the later exceeds max_tokens;  *)
(* three records of 4000 tokens under max_tokens 8000 give                 *)
(* [[r1, r2], [r3]].                                                       *)
(***************************************************************************)
C24_MaximalRuns ==
    Chunked =>
        /\ \A k \in 1..(Len(result) - 1) :
               SumTokens(result[k]) + TokensOf(result[k + 1][1]) > max_tokens
        /\ (ThreeOf4000 /\ max_tokens = 8000) =>
               result = << <<messages[1], messages[2]>>, <<messages[3]>> >>

C24_Witness ==
    /\ Chunked
    /\ ThreeOf4000
    /\ max_tokens = 8000
    /\ Len(result) = 2
    /\ Len(result[1]) = 2

(***************************************************************************)
(* Partitions of a sequence into contiguous non-empty chunks: a partition  *)
(* is the set of the positions after which it cuts.                        *)
(***************************************************************************)
Partitions(msgs) == SUBSET (1..(Len(msgs) - 1))

\* The positions at which a chunk of the partition starts, and where the
\* chunk that starts at a position ends.
Starts(msgs, cuts) ==
    IF Len(msgs) = 0 THEN {} ELSE {1} \cup {c + 1 : c \in cuts}

EndOf(msgs, cuts, start) ==
    CHOOSE e \in cuts \cup {Len(msgs)} :
        /\ e >= start
        /\ \A c \in cuts \cup {Len(msgs)} : c >= start => e <= c

\* A chunk is within the budget when it holds one record or totals at most
\* the budget.
Within(chunk, budget) == Len(chunk) = 1 \/ SumTokens(chunk) <= budget

Allowed(msgs, cuts, budget) ==
    \A start \in Starts(msgs, cuts) :
        Within(SubSeq(msgs, start, EndOf(msgs, cuts, start)), budget)

(***************************************************************************)
(* C25 (fewest chunks): for a positive max_tokens the chunks returned are  *)
(* a partition of the input into contiguous non-empty chunks, each within  *)
(* the budget, and no such partition has fewer chunks.                     *)
(***************************************************************************)
C25_FewestChunks ==
    (Chunked /\ max_tokens > 0) =>
        /\ Flatten(result) = messages
        /\ \A k \in 1..Len(result) :
               Len(result[k]) >= 1 /\ Within(result[k], max_tokens)
        /\ \A cuts \in Partitions(messages) :
               Allowed(messages, cuts, max_tokens) =>
                   Len(result) <= Cardinality(Starts(messages, cuts))

\* Three records came out as two chunks: neither one chunk nor one chunk
\* per record.
C25_Witness ==
    /\ Chunked
    /\ max_tokens > 0
    /\ Len(messages) = 3
    /\ Len(result) = 2
    /\ ~Allowed(messages, {}, max_tokens)

(***************************************************************************)
(* What the partitioner counted for a chunk it returned: its running total *)
(* when it has taken the records of the chunk.                             *)
(***************************************************************************)
ChargedFor(chunk, budget) ==
    chunk_loop(chunk, 1,
               [chunks |-> <<>>, current_chunk |-> <<>>, current_tokens |-> 0],
               budget).current_tokens

RECURSIVE ChargedInAll(_, _)
ChargedInAll(chunks, budget) ==
    IF Len(chunks) = 0 THEN 0
    ELSE ChargedFor(Head(chunks), budget) + ChargedInAll(Tail(chunks), budget)

PositiveBudgets == (1..MaxBudget) \cup {DEFAULT_MAX_TOKENS}

\* Four records that total 16000 tokens.
FourOf16000 == Len(messages) = 4 /\ SumTokens(messages) = 16000

(***************************************************************************)
(* C26: stats reports the number of records as total_messages and, as      *)
(* total_tokens, the sum over the chunks of chunk_messages of what the     *)
(* partitioner counted for their records, for every positive budget; for   *)
(* four records totalling 16000 tokens it reports 2 estimated chunks and   *)
(* an average of 4000.0.                                                   *)
(***************************************************************************)
C26_SameEstimate ==
    op = "stats" =>
        /\ result.total_messages = Len(messages)
        /\ \A n \in PositiveBudgets :
               result.total_tokens = ChargedInAll(chunk_messages(messages, n), n)
        /\ FourOf16000 =>
               /\ result.estimated_chunks = 2
               /\ result.avg_tokens_per_message = 4000 * 10

\* Four records of 16000 tokens, one of them without content, have been
\* measured.
C26_Witness ==
    /\ op = "stats"
    /\ FourOf16000
    /\ \E i \in 1..4 : get(messages[i], "content") = None
    /\ result.total_tokens = 16000

(***************************************************************************)
(* C27: for a positive max_tokens the blocks of chunk_and_format that are  *)
(* not empty strings, in order, hold exactly the entries of                *)
(* format_for_llm of the whole input, in order: joined by newlines they    *)
(* are its text; and the block of a chunk whose records all lack content   *)
(* is the empty string.                                                    *)
(***************************************************************************)
IsBlock(block) == Len(block) > 0

C27_SameEntries ==
    (op = "chunk_and_format" /\ max_tokens > 0) =>
        LET chunks == chunk_messages(messages, max_tokens)
        IN  /\ JoinedByNewline(format_for_llm(messages, include_timestamps),
                               SelectSeq(result, IsBlock))
            /\ Len(result) = Len(chunks)
            /\ \A i \in 1..Len(chunks) :
                   (\A j \in 1..Len(chunks[i]) : ~HasInk(chunks[i][j]))
                       <=> result[i] = <<>>

\* An empty block stands between two blocks that hold entries.
C27_Witness ==
    /\ op = "chunk_and_format"
    /\ max_tokens > 0
    /\ Len(result) = 3
    /\ Len(result[1]) > 0
    /\ result[2] = <<>>
    /\ Len(result[3]) > 0

(***************************************************************************)
(* C28: for a non-empty sequence in which no record alone is estimated     *)
(* above 8000 and whose total is positive, the estimated_chunks of stats   *)
(* is at most the number of chunks chunk_messages returns under the        *)
(* default budget.                                                         *)
(***************************************************************************)
NoOversizeRecord == \A i \in 1..Len(messages) : TokensOf(messages[i]) <= 8000

C28_EstimateIsLowerBound ==
    (op = "stats" /\ Len(messages) > 0 /\ NoOversizeRecord
        /\ SumTokens(messages) > 0) =>
        result.estimated_chunks
            <= Len(chunk_messages(messages, DEFAULT_MAX_TOKENS))

\* The estimate is 2 where the partitioner needs 3 chunks, and 2 where it
\* needs 2.
C28_Witness ==
    /\ op = "stats"
    /\ NoOversizeRecord
    /\ result.total_tokens = 16000
    /\ result.estimated_chunks = 2
    /\ Len(chunk_messages(messages, DEFAULT_MAX_TOKENS)) = 3

(***************************************************************************)
(* Imports on a database that fails.  The file is one that import_file     *)
(* accepts; the database is empty or holds an earlier import of the file;  *)
(* any of the Database calls of the import may raise.                      *)
(***************************************************************************)
MaxFaultMsgs == 2

FaultMessages ==
    { [id |-> JStr("1"),
       author |-> [id |-> JStr("1"), name |-> "hook", nickname |-> "al"],
       timestamp |-> IsoStamp, content |-> "hi"],
      [id |-> JInt(1), author |-> [id |-> JInt(2), name |-> "carol"],
       timestamp |-> IsoStamp, content |-> "yo"],
      [author |-> [id |-> JInt(2), name |-> "carol"],
       timestamp |-> IsoStamp, content |-> "hi"],
      [id |-> JInt(2), author |-> [id |-> JInt(2), name |-> "carol"],
       timestamp |-> "yesterday", content |-> "hi"] }

FaultFiles ==
    { [readable |-> TRUE,
       data |-> [guild |-> [id |-> JStr("7"), name |-> "srv"],
                 channel |-> [id |-> JStr("9"), name |-> "general",
                              type |-> "GuildTextChat"],
                 messages |-> m]] :
        m \in UNION { [1..n -> FaultMessages] : n \in 0..MaxFaultMsgs } }

DatabaseMethods == {"upsert_user", "upsert_server_member", "upsert_message"}

Faults(file) ==
    { [upsert_server |-> s, messages |-> m] :
        s \in BOOLEAN,
        m \in [1..Len(file.data.messages) -> DatabaseMethods \cup {"none"}] }

FaultInit ==
    /\ imp \in { [file |-> f, runs |-> <<>>] : f \in FaultFiles }
    /\ db \in { EmptyDb, import_file(imp.file, EmptyDb, FALSE, NoFaults(imp.file)).db }
    /\ messages = <<>>
    /\ op = "none"
    /\ max_tokens = 0
    /\ include_timestamps = FALSE
    /\ text = <<>>
    /\ result = <<>>
    /\ lines = <<>>
    /\ exc = "none"
    /\ tokens_per_word = TOKENS_PER_WORD_TENTHS
    /\ NoRepeat
    /\ NoThreads
    /\ NoFill
    /\ NoExport
    /\ NoRequest

\* One call import_file(json_path, db) during which Database calls raise.
CallImportFileFaulty ==
    /\ imp.runs = <<>>
    /\ \E faults \in Faults(imp.file) :
        LET ended == import_file(imp.file, db, FALSE, faults)
        IN  /\ db' = ended.db
            /\ imp' = [imp EXCEPT !.runs =
                          Append(@, [dry_run |-> FALSE, before |-> db,
                                     after |-> ended.db, stats |-> ended.stats,
                                     raised |-> ended.raised,
                                     faults |-> faults])]
    /\ UNCHANGED <<callVars, repeatVars, threads, fill, export, ollama>>

FaultNext == CallImportFileFaulty

SpecImportFaults == FaultInit /\ [][FaultNext]_vars

(***************************************************************************)
(* C29: when import_file (no dry run) accepts the file and returns, the    *)
(* counters new, updated, skipped and errors add up to the number of       *)
(* messages of the file, whichever Database calls raised while a message   *)
(* was imported: every message has incremented exactly one counter.        *)
(***************************************************************************)
SumOfCounters(counts) ==
    counts.new + counts.updated + counts.skipped + counts.errors

C29_OneCounterPerMessage ==
    \A k \in 1..Len(imp.runs) :
        (~imp.runs[k].dry_run /\ Accepted(imp.file)
            /\ imp.runs[k].raised = "none") =>
            /\ SumOfCounters(imp.runs[k].stats) = Len(FileMessagesOf(imp.file))
            /\ imp.runs[k].stats.errors =
                   Cardinality({i \in 1..Len(FileMessagesOf(imp.file)) :
                       /\ imp.runs[k].faults.messages[i] # "none"
                       /\ HasId(FileMessagesOf(imp.file)[i])
                       /\ ~(imp.runs[k].faults.messages[i] = "upsert_message"
                            /\ FileMessagesOf(imp.file)[i].timestamp # IsoStamp)})

\* Of two messages one was stored and the upsert of the other raised.
C29_Witness ==
    /\ Len(imp.runs) = 1
    /\ imp.runs[1].raised = "none"
    /\ Len(FileMessagesOf(imp.file)) = 2
    /\ imp.runs[1].faults.messages[1] = "upsert_message"
    /\ imp.runs[1].stats.errors = 1
    /\ imp.runs[1].stats.new = 1

====
